---- MODULE Spec2Model ----
(***************************************************************************)
(* phone-bridge: a model of ClaudeRunner.run_streaming                     *)
(* (src/claude_runner.py) and of MessageSender (src/message_sender.py).    *)
(*                                                                         *)
(* Spec        one call of run_streaming against an arbitrary subprocess   *)
(* SpecSender  MessageSender.send / send_more on arbitrary texts           *)
(* SpecBreak   one call of MessageSender._find_break                       *)
(* SpecApp     app.py: messages of several users, the user locks, /reset   *)
(* SpecStatus  app.py: one message with its status tasks and run thread    *)
(* SpecCmd     one call of ClaudeRunner._build_cmd                         *)
(* SpecGate    app.py: every handler behind the allowlist check            *)
(* SpecDeliver an answer and /more commands of one chat, chunk by chunk    *)
(*                                                                         *)
(* Python values are represented as follows.                               *)
(*   Optional value (None or v)  : <<>> or <<v>>                           *)
(*   JSON object (dict)          : a record whose domain is the key set    *)
(*   d.get(k, default)           : Get(d, k, default)                      *)
(*   a str built by an f-string  : the sequence of its pieces              *)
(*   a str that is sliced        : the sequence of its characters          *)
(***************************************************************************)
EXTENDS Integers, Sequences, FiniteSets, TLC

VARIABLES
    \* ---- run_streaming: arguments
    session_id,         \* the session_id argument: <<>> (None) or <<id>>
    has_queue,          \* whether an event_queue was passed
    \* ---- run_streaming: locals
    pc,                 \* "start" | "reading" | "waiting" | "returned" | "raised"
    tool_calls,         \* list of summaries
    result_obj,         \* <<>> (None) or <<event>>
    final_session_id,   \* str
    returncode,         \* proc.returncode: <<>> (None) or <<code>>
    event_queue,        \* contents of the queue.Queue passed by the caller
    ret,                \* the returned ClaudeResult: <<>> or <<result>>
    exc,                \* exception raised inside the try block ("" = none)
    \* ---- the subprocess and the wall clock
    proc,               \* "none" | "running" | "exited" | "killed"
    exit_status,        \* the subprocess's own exit status: <<>> or <<code>>
    clock,              \* ticks since Popen
    waited,             \* ticks spent inside proc.wait(timeout=...)
    \* ---- history of what was read from stdout
    nlines,             \* number of lines read
    seen_tools,         \* every tool_use block read, in arrival order
    seen_results,       \* every result record read, in arrival order
    seen_sid,           \* session id of the last init/result record carrying one
    \* ---- MessageSender
    overflow,           \* self._overflow: chat id -> <<>> (no key) or <<text>>
    outbox,             \* message bodies handed to bot.send_message by the last handler
    answer,             \* the text the caller has to send (argument of send)
    sent_to,            \* chat the answer was sent to: <<>> or <<chat>>
    last,               \* the last handler run: [op, chat]
    prior,              \* self._overflow as the last handler found it
    sent_log,           \* every chunk sent to the answer's chat, from the answer on
    \* ---- one call of _find_break
    brk_text,           \* its text argument
    brk_max,            \* its max_pos argument
    brk_cut,            \* its return value: <<>> before the call, then <<p>>
    \* ---- app.py: the messages being handled (one _process_message each)
    task_pc,            \* where each message's _process_message stands
    user_locks,         \* _user_locks: user id -> <<>> (free) or <<message holding it>>
    store,              \* sessions table: user id -> <<>> (no row) or <<session_id>>
    msg_session,        \* session_id read by store.get_session, per message
    msg_resume,         \* per message: <<>>, or <<resume arguments of the run launched>>
    msg_result,         \* result.session_id of the run, per message
    msg_expect,         \* last_returned of the user when the run was launched
    last_returned,      \* session id of the user's last run result, <<>> after /reset
    resets,             \* number of /reset commands handled
    reset_pending,      \* per user: /reset handled and no later message launched yet
    msg_mark,           \* per message: arrived "before" or "after" such a /reset, or
                        \* "fresh" once launched as the first message after it
    \* ---- app.py: one _process_message with its status tasks and run thread
    h_pc,               \* the handler coroutine: which await it stands at
    r_pc,               \* the thread of run_streaming
    u_pc,               \* status_task (update_status)
    t_pc,               \* typing_task (keep_typing)
    done_event,         \* done_event.is_set()
    status_queue,       \* the event_queue shared by the thread and update_status
    pushed,             \* every summary the thread has put on the queue, in order
    st_tool_calls,      \* tool_calls of update_status
    elapsed,            \* int(time.monotonic() - start_time), in wake-up periods
    last_status_text,   \* last_status_text
    edit_text,          \* new_text of the edit last issued
    last_ok_edit,       \* <<>> or <<text of the last edit that succeeded>>
    prev_failed,        \* <<>> or <<text of the last edit, if it failed>>
    u_last,             \* how the last render ended: none, ok, failed, skipped
    drained,            \* events taken from the queue in the current wake-up
    status_msg,         \* the status message: none, posted, deleting, deleted
    saved,              \* store.save_session was called
    answered,           \* sender.send returned
    send_failed,        \* sender.send raised
    signals,            \* typing signals issued
    wakes,              \* time-outs of update_status's wait
    \* ---- claude_runner.py: one call of _build_cmd
    cmd_args,           \* the arguments of the call and the runner's fields it reads
    cmd,                \* <<>> before the call, <<the list returned>> after it
    \* ---- app.py: the handlers behind the allowlist
    allowed_users,      \* Config.ALLOWED_USERS
    g_store,            \* the session id stored per user, <<>> if none
    g_overflow,         \* MessageSender._overflow
    system_prompt,      \* runner.system_prompt
    g_event,            \* the event handled last: its user, what the handler
                        \* did, and whether it changed the three fields above
    \* ---- message_sender.py: an answer and /more commands of one chat, sent
    \* ---- chunk by chunk
    dl_answer,          \* the text of the answer
    dl_overflow,        \* MessageSender._overflow
    dl_pc,              \* per handler: idle, sending (at an await of send_message), done
    dl_pending,         \* per handler: the chunks of its for loop not yet sent
    wire,               \* the messages the chat has been sent, in order, with sender
    early_pop           \* an overflow was popped while the answer was being sent

runVars == <<session_id, has_queue, pc, tool_calls, result_obj, final_session_id,
             returncode, event_queue, ret, exc, proc, exit_status, clock, waited,
             nlines, seen_tools, seen_results, seen_sid>>

sndVars == <<overflow, outbox, answer, sent_to, last, prior, sent_log>>

brkVars == <<brk_text, brk_max, brk_cut>>

appVars == <<task_pc, user_locks, store, msg_session, msg_resume, msg_result,
             msg_expect, last_returned, resets, reset_pending, msg_mark>>

stVars == <<h_pc, r_pc, u_pc, t_pc, done_event, status_queue, pushed, st_tool_calls,
            elapsed, last_status_text, edit_text, last_ok_edit, prev_failed, u_last,
            drained, status_msg, saved, answered, send_failed, signals, wakes>>

\* one call of _build_cmd
cmdVars == <<cmd_args, cmd>>

\* the parts added to the five above
\* the handlers behind the allowlist
gateVars == <<allowed_users, g_store, g_overflow, system_prompt, g_event>>

\* an answer and /more commands sent chunk by chunk
dlvVars == <<dl_answer, dl_overflow, dl_pc, dl_pending, wire, early_pop>>

extVars == <<cmdVars, gateVars, dlvVars>>

vars == <<runVars, sndVars, brkVars, appVars, stVars, extVars>>

\* what the actions of one part leave alone
nonRunVars == <<sndVars, brkVars, appVars, stVars, extVars>>
nonSndVars == <<runVars, brkVars, appVars, stVars, extVars>>
nonBrkVars == <<runVars, sndVars, appVars, stVars, extVars>>
nonAppVars == <<runVars, sndVars, brkVars, stVars, extVars>>
nonStVars == <<runVars, sndVars, brkVars, appVars, extVars>>
nonCmdVars == <<runVars, sndVars, brkVars, appVars, stVars, gateVars, dlvVars>>
nonGateVars == <<runVars, sndVars, brkVars, appVars, stVars, cmdVars, dlvVars>>
nonDlvVars == <<runVars, sndVars, brkVars, appVars, stVars, cmdVars, gateVars>>

----------------------------------------------------------------------------
(* Bounds of the model *)

\* lines the subprocess writes to stdout in one run
MaxLines == 2
\* the wall clock is followed up to this many ticks after Popen
MaxClock == 2

\* texts sent are the strings of at most MaxHead characters, alone or followed
\* by a run of TRUNCATE_THRESHOLD + 1 letters
MaxHead == 6

\* _find_break is called on texts of at most MaxBreakLen characters with
\* max_pos from 1 to MaxPos
MaxBreakLen == 5
MaxPos == 6

\* the run thread pushes at most MaxEvents tool events; update_status times
\* out at most MaxWakes times and keep_typing signals at most MaxSignals times
MaxEvents == 3
MaxWakes == 2
MaxSignals == 2

\* /reset is handled at most MaxResets times
MaxResets == 1

\* self.max_timeout (Config.CLAUDE_MAX_TIMEOUT), in clock ticks
max_timeout == 1

\* message_sender.py: TELEGRAM_MAX (4096) and TRUNCATE_THRESHOLD (16000),
\* scaled down; TELEGRAM_MAX < TRUNCATE_THRESHOLD as in the source
TELEGRAM_MAX == 5
TRUNCATE_THRESHOLD == 7

----------------------------------------------------------------------------
(* Python helpers *)

None == <<>>
Some(v) == <<v>>

Get(d, k, default) == IF k \in DOMAIN d THEN d[k] ELSE default

\* the empty dict {}
EmptyDict == [k \in {} |-> ""]

\* value returned by .get("type") / .get("subtype") when the key is missing
NoneStr == "<None>"

\* s[:n]
Take(s, n) == SubSeq(s, 1, IF Len(s) < n THEN Len(s) ELSE n)

\* os.path.basename of a path given as the sequence of its components
basename(path) == IF Len(path) = 0 THEN "" ELSE path[Len(path)]

----------------------------------------------------------------------------
(* _summarize_tool *)

_summarize_tool(name, input_data) ==
    CASE name = "Read"  -> <<"Reading ", basename(Get(input_data, "file_path", <<"?">>))>>
      [] name = "Write" -> <<"Writing ", basename(Get(input_data, "file_path", <<"?">>))>>
      [] name = "Edit"  -> <<"Editing ", basename(Get(input_data, "file_path", <<"?">>))>>
      [] name = "Bash"  -> <<"Running: ">> \o Take(Get(input_data, "command", <<"?">>), 60)
      [] name = "Glob"  -> <<"Finding files: ">> \o Get(input_data, "pattern", <<"?">>)
      [] name = "Grep"  -> <<"Searching: ">> \o Take(Get(input_data, "pattern", <<"?">>), 40)
      [] name = "WebSearch" -> <<"Web search: ">> \o Take(Get(input_data, "query", <<"?">>), 50)
      [] name = "WebFetch"  -> <<"Fetching: ">> \o Take(Get(input_data, "url", <<"?">>), 50)
      [] name = "NotebookEdit" ->
            <<"Editing notebook: ", basename(Get(input_data, "notebook_path", <<"?">>))>>
      [] name = "Task"  ->
            <<"Agent: ">> \o Get(input_data, "description",
                                  Take(Get(input_data, "prompt", <<"?">>), 40))
      [] OTHER          -> <<name>>

----------------------------------------------------------------------------
(* What the subprocess may write to stdout: one value per line *)

Sids == {"s1", "s2"}

ToolUse(name, input) == [type |-> "tool_use", name |-> name, input |-> input]
ReadBlock == ToolUse("Read", [file_path |-> <<"tmp", "a.py">>])
BashBlock == ToolUse("Bash", [command |-> <<"l", "s">>])
NamelessBlock == [type |-> "tool_use"]
TextBlock == [type |-> "text"]

Contents == {<<ReadBlock>>, <<BashBlock>>, <<TextBlock, NamelessBlock>>}

\* a "message" value: a dict, or something that is not a dict
DictValue(d) == [isdict |-> TRUE, d |-> d]
NotADict == [isdict |-> FALSE, d |-> EmptyDict]

Opt(S) == {None} \cup {Some(v) : v \in S}

InitEvent(sid) ==
    IF sid = None THEN [type |-> "system", subtype |-> "init"]
    ELSE [type |-> "system", subtype |-> "init", session_id |-> sid[1]]

ResultEvent(r, sid, cost, err) ==
    LET keys == {"type"} \cup (IF r = None THEN {} ELSE {"result"})
                         \cup (IF sid = None THEN {} ELSE {"session_id"})
                         \cup (IF cost = None THEN {} ELSE {"total_cost_usd"})
                         \cup (IF err = None THEN {} ELSE {"is_error"})
    IN  [k \in keys |-> CASE k = "type" -> "result"
                          [] k = "result" -> r[1]
                          [] k = "session_id" -> sid[1]
                          [] k = "total_cost_usd" -> cost[1]
                          [] k = "is_error" -> err[1]]

InitEvents == {InitEvent(sid) : sid \in Opt(Sids)}

\* a record with an empty result text reports a cost and raises its own
\* error flag; the other records carry neither key
ResultEvents ==
    {ResultEvent(r, sid, IF r = Some("") THEN Some(2) ELSE None,
                         IF r = Some("") THEN Some(TRUE) ELSE None) :
        r \in Opt({"", "r1"}), sid \in Opt(Sids)}

AssistantEvents ==
    {[type |-> "assistant"],
     [type |-> "assistant", message |-> DictValue(EmptyDict)],
     [type |-> "assistant", message |-> NotADict]}
    \cup {[type |-> "assistant", message |-> DictValue([content |-> c])] : c \in Contents}

OtherEvents ==
    {EmptyDict, [type |-> "user"],
     [type |-> "system", subtype |-> "hook", session_id |-> "s2"]}

Events == InitEvents \cup ResultEvents \cup AssistantEvents \cup OtherEvents

BlankLine == [kind |-> "blank"]
GarbageLine == [kind |-> "garbage"]
\* a line holding valid JSON that is not an object: 123, "x", [1], null
NonObjectLine == [kind |-> "json", isobj |-> FALSE]
ObjectLine(o) == [kind |-> "json", isobj |-> TRUE, o |-> o]

Lines == {BlankLine, GarbageLine, NonObjectLine} \cup {ObjectLine(o) : o \in Events}

ExitCodes == {0, 1}
StderrTexts == {"", "boom"}

----------------------------------------------------------------------------
(* ClaudeResult and the return statements of run_streaming *)

ClaudeResult(text, sid, cost, err, stderr, calls) ==
    [text |-> text, session_id |-> sid, cost_usd |-> cost, is_error |-> err,
     stderr |-> stderr, tool_calls |-> calls]

TimeoutText ==
    <<"Request timed out after ", ToString(max_timeout),
      "s. Try a simpler question or increase CLAUDE_MAX_TIMEOUT.">>
FaultText(e) == <<"Error running Claude: ", e>>
ExitText(code, snippet) ==
    <<"Claude error (exit code ", ToString(code), ")">>
        \o (IF snippet # "" THEN <<":\n\n", snippet>> ELSE <<>>)
NoResultText == <<"Error: No result in Claude's response.">>
EmptyResponseText == <<"(Claude returned an empty response)">>

\* a timeout handler that forgets the session id
TimeoutResultNoSession(fsid, calls) == ClaudeResult(TimeoutText, "", 0, TRUE, "", calls)

\* except subprocess.TimeoutExpired
TimeoutResult(fsid, calls) == ClaudeResult(TimeoutText, fsid, 0, TRUE, "", calls)

\* except Exception as e
FaultResult(e, fsid, calls) == ClaudeResult(FaultText(e), fsid, 0, TRUE, "", calls)

\* the statements after the try block, had the result record come first
AfterTryResultFirst(rc, stderr_output, robj, fsid, calls) ==
    IF robj # None THEN
        ClaudeResult(<<Get(robj[1], "result", "")>>, Get(robj[1], "session_id", fsid),
                     Get(robj[1], "total_cost_usd", 0), Get(robj[1], "is_error", FALSE),
                     "", calls)
    ELSE IF rc # 0 THEN
        ClaudeResult(ExitText(rc, stderr_output), fsid, 0, TRUE, stderr_output, calls)
    ELSE ClaudeResult(NoResultText, fsid, 0, TRUE, "", calls)

\* the statements after the try block
AfterTry(rc, stderr_output, robj, fsid, calls) ==
    IF rc # 0 THEN
        ClaudeResult(ExitText(rc, stderr_output), fsid, 0, TRUE, stderr_output, calls)
    ELSE IF robj = None THEN
        ClaudeResult(NoResultText, fsid, 0, TRUE, "", calls)
    ELSE
        LET r == robj[1]
            text == Get(r, "result", "")
        IN  ClaudeResult(IF text = "" THEN EmptyResponseText ELSE <<text>>,
                         Get(r, "session_id", fsid),
                         Get(r, "total_cost_usd", 0),
                         Get(r, "is_error", FALSE),
                         "", calls)

\* a try block with the first except clause only
CaughtOnlyTimeout(e) == e = "TimeoutExpired"

\* the except clauses: which exception classes are caught, and what is returned
Caught(e) == TRUE

Handler(e, fsid, calls) ==
    IF e = "TimeoutExpired" THEN TimeoutResult(fsid, calls)
    ELSE FaultResult(e, fsid, calls)

----------------------------------------------------------------------------
(* The body of `for line in proc.stdout`, for one line *)

ToolUseBlocks(content) ==
    SelectSeq(content, LAMBDA block : Get(block, "type", NoneStr) = "tool_use")

Summaries(blocks) ==
    [i \in 1..Len(blocks) |->
        _summarize_tool(Get(blocks[i], "name", "?"), Get(blocks[i], "input", EmptyDict))]

\* summaries put in front of the list instead of appended
AssistantCallsPrepended(content, calls) == Summaries(ToolUseBlocks(content)) \o calls

\* tool_calls after the blocks of one assistant message (lines 156-161)
AssistantCalls(content, calls) == calls \o Summaries(ToolUseBlocks(content))

\* a loop that keeps the first result record
ResultObjKeepFirst(event, robj) == IF robj = None THEN Some(event) ELSE robj

\* result_obj after a result record (line 166)
ResultObj(event, robj) == Some(event)

LoopState(raised, calls, queue, robj, fsid) ==
    [raised |-> raised, tool_calls |-> calls, event_queue |-> queue,
     result_obj |-> robj, final_session_id |-> fsid]

\* the names of lines 139-167 are kept; raised = "" when the body completes
LoopBody(line, calls, queue, robj, fsid) ==
    IF line.kind = "blank" THEN LoopState("", calls, queue, robj, fsid)
    ELSE IF line.kind = "garbage" THEN LoopState("", calls, queue, robj, fsid)
    ELSE IF ~line.isobj THEN LoopState("AttributeError", calls, queue, robj, fsid)
    ELSE
      LET event == line.o
          event_type == Get(event, "type", NoneStr)
      IN  IF event_type = "system" /\ Get(event, "subtype", NoneStr) = "init" THEN
              LoopState("", calls, queue, robj, Get(event, "session_id", fsid))
          ELSE IF event_type = "assistant" THEN
              LET message == Get(event, "message", DictValue(EmptyDict)) IN
              IF ~message.isdict THEN
                  LoopState("AttributeError", calls, queue, robj, fsid)
              ELSE
                  LET content == Get(message.d, "content", <<>>) IN
                  LoopState("", AssistantCalls(content, calls),
                            IF has_queue
                            THEN queue \o Summaries(ToolUseBlocks(content))
                            ELSE queue,
                            robj, fsid)
          ELSE IF event_type = "result" THEN
              LoopState("", calls, queue, ResultObj(event, robj),
                        Get(event, "session_id", fsid))
          ELSE LoopState("", calls, queue, robj, fsid)

----------------------------------------------------------------------------
(* What a line is, independently of how the loop treats it *)

IsObject(line) == line.kind = "json" /\ line.isobj
IsInitRecord(line) ==
    /\ IsObject(line)
    /\ "type" \in DOMAIN line.o /\ line.o.type = "system"
    /\ "subtype" \in DOMAIN line.o /\ line.o.subtype = "init"
IsResultRecord(line) ==
    IsObject(line) /\ "type" \in DOMAIN line.o /\ line.o.type = "result"
IsAssistantRecord(line) ==
    /\ IsObject(line) /\ "type" \in DOMAIN line.o /\ line.o.type = "assistant"
    /\ "message" \in DOMAIN line.o /\ line.o.message.isdict
    /\ "content" \in DOMAIN line.o.message.d
\* a line that does not decode into a recognised event
IsMalformed(line) ==
    ~(IsInitRecord(line) \/ IsResultRecord(line) \/ IsAssistantRecord(line))
CarriesSid(line) ==
    (IsInitRecord(line) \/ IsResultRecord(line)) /\ "session_id" \in DOMAIN line.o
BlocksOf(line) ==
    IF IsAssistantRecord(line)
    THEN SelectSeq(line.o.message.d.content,
                   LAMBDA b : "type" \in DOMAIN b /\ b.type = "tool_use")
    ELSE <<>>

----------------------------------------------------------------------------
(* MessageSender: a text is a sequence of characters *)

Chats == {1, 2}

Letter == "a"
Whitespace == {" ", "\n"}
TextChars == {Letter} \cup Whitespace

Run(c, n) == [i \in 1..n |-> c]

\* the texts a caller sends: every string of at most MaxHead characters, and
\* each of them followed by enough letters to pass TRUNCATE_THRESHOLD
Heads == UNION {[1..n -> TextChars] : n \in 0..MaxHead}
Tails == {<<>>, Run(Letter, TRUNCATE_THRESHOLD + 1)}
Texts == {h \o t : h \in Heads, t \in Tails}

\* a remainder stored by an earlier long answer
Old == <<"b">>

\* "\n\n[Truncated ... send /more for the rest]": the bracketed sentence is one
\* character of the model (no break is ever taken inside it)
MARKER == <<"\n", "\n", "[Truncated - send /more for the rest]">>

\* f"[{i}/{total}] ": a counter that starts from 0
CounterFromZero(i, total) == <<"[", ToString(i - 1), "/", ToString(total), "]", " ">>

\* f"[{i + 1}/{total}] "
Counter(i, total) == <<"[", ToString(i), "/", ToString(total), "]", " ">>

\* text[:cut] and text[cut:]
Before(text, cut) == SubSeq(text, 1, cut)
After(text, cut) == SubSeq(text, cut + 1, Len(text))

RECURSIVE rstrip(_)
rstrip(text) ==
    IF text # <<>> /\ text[Len(text)] \in Whitespace
    THEN rstrip(Before(text, Len(text) - 1))
    ELSE text

RECURSIVE lstrip(_)
lstrip(text) ==
    IF text # <<>> /\ text[1] \in Whitespace
    THEN lstrip(After(text, 1))
    ELSE text

\* text.rfind(delimiter, 0, end): the highest index (from 0) at which delimiter
\* occurs wholly inside text[0:end], or -1
rfind(text, delimiter, end) ==
    LET stop == IF end < Len(text) THEN end ELSE Len(text)
        found == {pos \in 0..(stop - Len(delimiter)) :
                    SubSeq(text, pos + 1, pos + Len(delimiter)) = delimiter}
    IN  IF found = {} THEN -1
        ELSE CHOOSE pos \in found : \A q \in found : q <= pos

Delimiters == << <<"\n", "\n">>, <<"\n">>, <<".", " ">>, <<" ">> >>

\* a test that takes any occurrence found
PastHalfAny(pos, max_pos) == pos >= 0

\* if pos > max_pos // 2
PastHalf(pos, max_pos) == pos > max_pos \div 2

RECURSIVE FindBreakFrom(_, _, _)
FindBreakFrom(text, max_pos, k) ==
    IF k > Len(Delimiters) THEN max_pos
    ELSE LET delimiter == Delimiters[k]
             pos == rfind(text, delimiter, max_pos)
         IN  IF PastHalf(pos, max_pos)
             THEN pos + Len(delimiter)
             ELSE FindBreakFrom(text, max_pos, k + 1)

_find_break(text, max_pos) == FindBreakFrom(text, max_pos, 1)

\* a remainder that starts one character late
RemainingSkipOne(remaining, cut) == lstrip(After(remaining, cut + 1))

\* remaining = remaining[cut:].lstrip()
Remaining(remaining, cut) == lstrip(After(remaining, cut))

\* the while loop of _split
RECURSIVE SplitLoop(_, _)
SplitLoop(remaining, chunks) ==
    IF remaining = <<>> THEN chunks
    ELSE IF Len(remaining) <= TELEGRAM_MAX THEN Append(chunks, remaining)
    ELSE LET cut == _find_break(remaining, TELEGRAM_MAX) IN
         SplitLoop(Remaining(remaining, cut),
                   Append(chunks, rstrip(Before(remaining, cut))))

_split(text) ==
    IF Len(text) <= TELEGRAM_MAX THEN <<text>>
    ELSE LET chunks == SplitLoop(text, <<>>)
             total == Len(chunks)
         IN  IF total > 1
             THEN [i \in 1..total |-> Counter(i, total) \o chunks[i]]
             ELSE chunks

\* a short branch that drops the chat's overflow
ShortChunksClearing(chat_id, text, ovf) ==
    [chunks |-> <<text>>, overflow |-> [ovf EXCEPT ![chat_id] = None]]

\* if len(text) <= TELEGRAM_MAX: return [text]
ShortChunks(chat_id, text, ovf) ==
    [chunks |-> <<text>>, overflow |-> ovf]

\* a store that keeps a remainder already held for the chat
StoreOverflowKeepFirst(ovf, chat_id, rest) ==
    IF ovf[chat_id] # None THEN ovf ELSE [ovf EXCEPT ![chat_id] = Some(rest)]

\* self._overflow[chat_id] = text[cut:]
StoreOverflow(ovf, chat_id, rest) == [ovf EXCEPT ![chat_id] = Some(rest)]

\* a remainder that starts one character before the cut
RestOverlapping(text, cut) == After(text, cut - 1)

\* text[cut:]
Rest(text, cut) == After(text, cut)

\* _prepare_chunks, with self._overflow passed in and handed back
_prepare_chunks(chat_id, text, ovf) ==
    IF Len(text) <= TELEGRAM_MAX THEN ShortChunks(chat_id, text, ovf)
    ELSE IF Len(text) > TRUNCATE_THRESHOLD
    THEN LET cut == _find_break(text, TRUNCATE_THRESHOLD) IN
         [chunks   |-> _split(rstrip(Before(text, cut)) \o MARKER),
          overflow |-> StoreOverflow(ovf, chat_id, Rest(text, cut))]
    ELSE [chunks |-> _split(text), overflow |-> ovf]

\* send: every chunk of _prepare_chunks goes to bot.send_message, in order
send(chat_id, text, ovf) == _prepare_chunks(chat_id, text, ovf)

has_overflow(ovf, chat_id) == ovf[chat_id] # None

\* a lookup that leaves the entry in the map
PeekOverflow(ovf, chat_id) == ovf

\* self._overflow.pop(chat_id, None): the map left behind
PopOverflow(ovf, chat_id) == [ovf EXCEPT ![chat_id] = None]

\* send_more: sent is its return value
send_more(chat_id, ovf) ==
    LET popped == ovf[chat_id]
        rest   == PopOverflow(ovf, chat_id)
    IN  IF popped = None \/ popped[1] = <<>>
        THEN [sent |-> FALSE, chunks |-> <<>>, overflow |-> rest]
        ELSE LET r == send(chat_id, popped[1], rest) IN
             [sent |-> TRUE, chunks |-> r.chunks, overflow |-> r.overflow]

NoOverflow == [c \in Chats |-> None]

\* no call of _find_break under way
BreakIdle ==
    /\ brk_text = <<>>
    /\ brk_max = 1
    /\ brk_cut = None

\* the messages handled: two of user 1 and one of user 2
Users == Chats
Messages == {"m1", "m2", "m3"}
user_id(m) == IF m = "m3" THEN 2 ELSE 1

\* no message has arrived
AppIdle ==
    /\ task_pc = [m \in Messages |-> "idle"]
    /\ user_locks = [u \in Users |-> None]
    /\ store = [u \in Users |-> None]
    /\ msg_session = [m \in Messages |-> None]
    /\ msg_resume = [m \in Messages |-> None]
    /\ msg_result = [m \in Messages |-> None]
    /\ msg_expect = [m \in Messages |-> None]
    /\ last_returned = [u \in Users |-> None]
    /\ resets = 0
    /\ reset_pending = [u \in Users |-> FALSE]
    /\ msg_mark = [m \in Messages |-> "before"]

\* the message has just arrived: the lock is taken and "Working..." is
\* being posted
StatusStart ==
    /\ h_pc = "posting"
    /\ r_pc = "none"
    /\ u_pc = "none"
    /\ t_pc = "none"
    /\ done_event = FALSE
    /\ status_queue = <<>>
    /\ pushed = <<>>
    /\ st_tool_calls = <<>>
    /\ elapsed = 0
    /\ last_status_text = <<>>
    /\ edit_text = <<>>
    /\ last_ok_edit = None
    /\ prev_failed = None
    /\ u_last = "none"
    /\ drained = 0
    /\ status_msg = "none"
    /\ saved = FALSE
    /\ answered = FALSE
    /\ send_failed = FALSE
    /\ signals = 0
    /\ wakes = 0

\* the sender of a process that has sent nothing
SenderIdle ==
    /\ overflow = NoOverflow
    /\ outbox = <<>>
    /\ answer = <<>>
    /\ sent_to = None
    /\ last = [op |-> "none", chat |-> 0]
    /\ prior = NoOverflow
    /\ sent_log = <<>>

\* the runner as app.py constructs it when nothing is configured, and no
\* call of _build_cmd made
CmdIdle ==
    /\ cmd_args = [prompt |-> "hi", session_id |-> None, file_paths |-> None,
                   streaming |-> TRUE, allowed_tools |-> "", max_budget_usd |-> 0,
                   system_prompt |-> ""]
    /\ cmd = None

\* no event handled, nothing stored and no allowlist configured
GateIdle ==
    /\ allowed_users = {}
    /\ g_store = [u \in Users |-> None]
    /\ g_overflow = NoOverflow
    /\ system_prompt = ""
    /\ g_event = [user |-> 0, did |-> {}, changed |-> FALSE]

\* the number of /more commands handled
MaxMores == 2

\* handler 0 is the _process_message that sends the answer, the others are
\* cmd_more handlers
AnswerTask == 0
MoreTasks == 1..MaxMores
Tasks == {AnswerTask} \cup MoreTasks

\* nothing to send and nothing sent
DeliverIdle ==
    /\ dl_answer = <<>>
    /\ dl_overflow = NoOverflow
    /\ dl_pc = [t \in Tasks |-> "idle"]
    /\ dl_pending = [t \in Tasks |-> <<>>]
    /\ wire = <<>>
    /\ early_pop = FALSE

ExtIdle == CmdIdle /\ GateIdle /\ DeliverIdle

----------------------------------------------------------------------------
(* One call of run_streaming *)

RunStart ==
    /\ session_id \in Opt({"s0"})
    /\ has_queue \in BOOLEAN
    /\ pc = "start"
    /\ tool_calls = <<>>
    /\ result_obj = None
    /\ final_session_id = (IF session_id = None THEN "" ELSE session_id[1])
    /\ returncode = None
    /\ event_queue = <<>>
    /\ ret = None
    /\ exc = ""
    /\ proc = "none"
    /\ exit_status = None
    /\ clock = 0
    /\ waited = 0
    /\ nlines = 0
    /\ seen_tools = <<>>
    /\ seen_results = <<>>
    /\ seen_sid = None

InitRun == RunStart /\ SenderIdle /\ BreakIdle /\ AppIdle /\ StatusStart /\ ExtIdle

\* an exception e leaves the try block with the locals (calls, fsid)
Raise(e, calls, fsid) ==
    /\ exc' = e
    /\ IF Caught(e)
       THEN pc' = "returned" /\ ret' = Some(Handler(e, fsid, calls))
       ELSE pc' = "raised" /\ ret' = ret

\* subprocess.Popen succeeds
Launch ==
    /\ pc = "start"
    /\ pc' = "reading"
    /\ proc' = "running"
    /\ UNCHANGED <<session_id, has_queue, tool_calls, result_obj, final_session_id,
                   returncode, event_queue, ret, exc, exit_status, clock, waited,
                   nlines, seen_tools, seen_results, seen_sid, nonRunVars>>

\* subprocess.Popen raises (executable not found)
LaunchFails ==
    /\ pc = "start"
    /\ Raise("FileNotFoundError", tool_calls, final_session_id)
    /\ UNCHANGED <<session_id, has_queue, tool_calls, result_obj, final_session_id,
                   returncode, event_queue, proc, exit_status, clock, waited,
                   nlines, seen_tools, seen_results, seen_sid, nonRunVars>>

\* the next line of proc.stdout is `line`: one iteration of the for loop
ReadLine(line) ==
    /\ pc = "reading"
    /\ proc \in {"running", "exited"}
    /\ nlines < MaxLines
    /\ nlines' = nlines + 1
    /\ seen_tools' = seen_tools \o BlocksOf(line)
    /\ seen_results' = (IF IsResultRecord(line) THEN Append(seen_results, line.o)
                                                ELSE seen_results)
    /\ seen_sid' = (IF CarriesSid(line) THEN Some(line.o.session_id) ELSE seen_sid)
    /\ LET st == LoopBody(line, tool_calls, event_queue, result_obj, final_session_id) IN
         /\ tool_calls' = st.tool_calls
         /\ event_queue' = st.event_queue
         /\ result_obj' = st.result_obj
         /\ final_session_id' = st.final_session_id
         /\ IF st.raised = ""
            THEN UNCHANGED <<pc, ret, exc>>
            ELSE Raise(st.raised, st.tool_calls, st.final_session_id)
    /\ UNCHANGED <<session_id, has_queue, returncode, proc, exit_status, clock, waited,
                   nonRunVars>>

\* reading proc.stdout itself raises (undecodable bytes, I/O error)
ReadFails ==
    /\ pc = "reading"
    /\ proc \in {"running", "exited"}
    /\ Raise("UnicodeDecodeError", tool_calls, final_session_id)
    /\ UNCHANGED <<session_id, has_queue, tool_calls, result_obj, final_session_id,
                   returncode, event_queue, proc, exit_status, clock, waited,
                   nlines, seen_tools, seen_results, seen_sid, nonRunVars>>

\* proc.stdout reaches end of file (the subprocess closed it, or exited):
\* the loop ends and proc.wait(timeout=self.max_timeout) begins
ReadEOF ==
    /\ pc = "reading"
    /\ proc \in {"running", "exited"}
    /\ pc' = "waiting"
    /\ waited' = 0
    /\ UNCHANGED <<session_id, has_queue, tool_calls, result_obj, final_session_id,
                   returncode, event_queue, ret, exc, proc, exit_status, clock,
                   nlines, seen_tools, seen_results, seen_sid, nonRunVars>>

\* the subprocess exits by itself
ProcExit(code) ==
    /\ pc \in {"reading", "waiting"}
    /\ proc = "running"
    /\ proc' = "exited"
    /\ exit_status' = Some(code)
    /\ UNCHANGED <<session_id, has_queue, pc, tool_calls, result_obj, final_session_id,
                   returncode, event_queue, ret, exc, clock, waited,
                   nlines, seen_tools, seen_results, seen_sid, nonRunVars>>

\* time passes while run_streaming is blocked: on the next stdout line of a
\* running subprocess, or in proc.wait before its timeout
Tick ==
    /\ proc = "running"
    /\ \/ pc = "reading"
       \/ pc = "waiting" /\ waited < max_timeout
    /\ clock' = (IF clock < MaxClock THEN clock + 1 ELSE clock)
    /\ waited' = (IF pc = "waiting" THEN waited + 1 ELSE waited)
    /\ UNCHANGED <<session_id, has_queue, pc, tool_calls, result_obj, final_session_id,
                   returncode, event_queue, ret, exc, proc, exit_status,
                   nlines, seen_tools, seen_results, seen_sid, nonRunVars>>

\* proc.wait returns; stderr is joined; the statements after the try block run
WaitReturns(stderr_output) ==
    /\ pc = "waiting"
    /\ proc = "exited"
    /\ returncode' = exit_status
    /\ pc' = "returned"
    /\ ret' = Some(AfterTry(exit_status[1], stderr_output, result_obj,
                            final_session_id, tool_calls))
    /\ UNCHANGED <<session_id, has_queue, tool_calls, result_obj, final_session_id,
                   event_queue, exc, proc, exit_status, clock, waited,
                   nlines, seen_tools, seen_results, seen_sid, nonRunVars>>

\* proc.wait raises TimeoutExpired; the handler kills the subprocess
WaitTimesOut ==
    /\ pc = "waiting"
    /\ proc = "running"
    /\ waited >= max_timeout
    /\ proc' = "killed"
    /\ Raise("TimeoutExpired", tool_calls, final_session_id)
    /\ UNCHANGED <<session_id, has_queue, tool_calls, result_obj, final_session_id,
                   returncode, event_queue, exit_status, clock, waited,
                   nlines, seen_tools, seen_results, seen_sid, nonRunVars>>

Next ==
    \/ Launch
    \/ LaunchFails
    \/ \E line \in Lines : ReadLine(line)
    \/ ReadFails
    \/ ReadEOF
    \/ \E code \in ExitCodes : ProcExit(code)
    \/ Tick
    \/ \E stderr_output \in StderrTexts : WaitReturns(stderr_output)
    \/ WaitTimesOut

Spec == InitRun /\ [][Next]_vars

----------------------------------------------------------------------------
(* The sender: one answer to send, and /more *)

InitSender ==
    /\ RunStart /\ session_id = None /\ has_queue = FALSE
    /\ answer \in Texts
    /\ overflow \in {NoOverflow, [c \in Chats |-> Some(Old)]}
    /\ outbox = <<>>
    /\ sent_to = None
    /\ last = [op |-> "none", chat |-> 0]
    /\ prior = overflow
    /\ sent_log = <<>>
    /\ BreakIdle
    /\ AppIdle
    /\ StatusStart
    /\ ExtIdle

\* handle_message: await sender.send(user_id, text)
HandleAnswer(chat_id) ==
    /\ sent_to = None
    /\ LET r == send(chat_id, answer, overflow) IN
         /\ outbox' = r.chunks
         /\ overflow' = r.overflow
         /\ sent_log' = r.chunks
    /\ sent_to' = Some(chat_id)
    /\ last' = [op |-> "send", chat |-> chat_id]
    /\ prior' = overflow
    /\ UNCHANGED <<answer, nonSndVars>>

\* cmd_more: send_more when the chat has an overflow, a plain reply otherwise
CmdMore(chat_id) ==
    /\ IF has_overflow(overflow, chat_id)
       THEN LET r == send_more(chat_id, overflow) IN
              /\ outbox' = r.chunks
              /\ overflow' = r.overflow
              /\ last' = [op |-> "more", chat |-> chat_id]
              /\ sent_log' = (IF sent_to = Some(chat_id)
                              THEN sent_log \o r.chunks ELSE sent_log)
       ELSE /\ outbox' = <<>>
            /\ overflow' = overflow
            /\ last' = [op |-> "no_more", chat |-> chat_id]
            /\ UNCHANGED sent_log
    /\ prior' = overflow
    /\ UNCHANGED <<answer, sent_to, nonSndVars>>

NextSender ==
    \/ \E chat_id \in Chats : HandleAnswer(chat_id)
    \/ \E chat_id \in Chats : CmdMore(chat_id)

SpecSender == InitSender /\ [][NextSender]_vars

----------------------------------------------------------------------------
(* One call of _find_break *)

BreakChars == {Letter, " ", "\n", "."}
BreakTexts == UNION {[1..n -> BreakChars] : n \in 0..MaxBreakLen}

InitBreak ==
    /\ RunStart /\ session_id = None /\ has_queue = FALSE
    /\ SenderIdle
    /\ AppIdle
    /\ StatusStart
    /\ ExtIdle
    /\ brk_text \in BreakTexts
    /\ brk_max \in 1..MaxPos
    /\ brk_cut = None

FindBreak ==
    /\ brk_cut = None
    /\ brk_cut' = Some(_find_break(brk_text, brk_max))
    /\ UNCHANGED <<brk_text, brk_max, nonBrkVars>>

NextBreak == FindBreak

SpecBreak == InitBreak /\ [][NextBreak]_vars

----------------------------------------------------------------------------
(* app.py: messages of several users handled concurrently, and /reset.      *)
(* Each action is the code of _process_message between two awaits.          *)

\* session ids a run can report besides the one it resumed
NewSids == {"s1", "s2"}

InitApp ==
    /\ RunStart /\ session_id = None /\ has_queue = FALSE
    /\ SenderIdle
    /\ BreakIdle
    /\ StatusStart
    /\ ExtIdle
    /\ task_pc = [m \in Messages |-> "idle"]
    /\ user_locks = [u \in Users |-> None]
    /\ store \in [Users -> Opt({"s0"})]
    /\ msg_session = [m \in Messages |-> None]
    /\ msg_resume = [m \in Messages |-> None]
    /\ msg_result = [m \in Messages |-> None]
    /\ msg_expect = [m \in Messages |-> None]
    /\ last_returned = [u \in Users |-> None]
    /\ resets = 0
    /\ reset_pending = [u \in Users |-> FALSE]
    /\ msg_mark = [m \in Messages |-> "before"]

\* a lock that is handed out whoever holds it
LockFreeAlways(u) == TRUE

\* lock = _get_user_lock(user_id); the lock is not held
LockFree(u) == user_locks[u] = None

\* a command line that never resumes
ResumeNever(sid) == <<>>

\* _build_cmd: if session_id: cmd.extend(["--resume", session_id])
Resume(sid) == IF sid # None /\ sid[1] # "" THEN <<"--resume", sid[1]>> ELSE <<>>

\* handle_message is called for m and reaches `async with lock`
Arrive(m) ==
    /\ task_pc[m] = "idle"
    /\ task_pc' = [task_pc EXCEPT ![m] = "wait_lock"]
    /\ msg_mark' = [msg_mark EXCEPT
                       ![m] = IF reset_pending[user_id(m)] THEN "after" ELSE "before"]
    /\ UNCHANGED <<user_locks, store, msg_session, msg_resume, msg_result,
                   msg_expect, last_returned, resets, reset_pending, nonAppVars>>

\* the lock is acquired, store.get_session is read and the status message
\* is being posted
Acquire(m) ==
    /\ task_pc[m] = "wait_lock"
    /\ LockFree(user_id(m))
    /\ user_locks' = [user_locks EXCEPT ![user_id(m)] = Some(m)]
    /\ msg_session' = [msg_session EXCEPT ![m] = store[user_id(m)]]
    /\ task_pc' = [task_pc EXCEPT ![m] = "posting"]
    /\ UNCHANGED <<store, msg_resume, msg_result, msg_expect, last_returned,
                   resets, reset_pending, msg_mark, nonAppVars>>

\* bot.send_message("Working...") returns: the status tasks are created and
\* runner.run_streaming is started in a thread; or it raises, and the outer
\* except clause replies
PostStatus(m, ok) ==
    /\ task_pc[m] = "posting"
    /\ IF ok
       THEN /\ task_pc' = [task_pc EXCEPT ![m] = "running"]
            /\ msg_resume' = [msg_resume EXCEPT ![m] = Some(Resume(msg_session[m]))]
            /\ msg_expect' = [msg_expect EXCEPT ![m] = last_returned[user_id(m)]]
            /\ IF msg_mark[m] = "after" /\ reset_pending[user_id(m)]
               THEN /\ msg_mark' = [msg_mark EXCEPT ![m] = "fresh"]
                    /\ reset_pending' = [reset_pending EXCEPT ![user_id(m)] = FALSE]
               ELSE UNCHANGED <<msg_mark, reset_pending>>
       ELSE /\ task_pc' = [task_pc EXCEPT ![m] = "replying"]
            /\ UNCHANGED <<msg_resume, msg_expect, msg_mark, reset_pending>>
    /\ UNCHANGED <<user_locks, store, msg_session, msg_result, last_returned,
                   resets, nonAppVars>>

\* the ids run_streaming can return: a new one, or the one passed in ("" if none)
ResultSids(sid) == NewSids \cup {IF sid = None THEN "" ELSE sid[1]}

\* run_streaming returns a result; the finally block sets done_event and
\* awaits both status tasks; status_msg.delete() is called
RunReturns(m, sid) ==
    /\ task_pc[m] = "running"
    /\ msg_result' = [msg_result EXCEPT ![m] = Some(sid)]
    /\ last_returned' = [last_returned EXCEPT ![user_id(m)] = Some(sid)]
    /\ task_pc' = [task_pc EXCEPT ![m] = "deleting"]
    /\ UNCHANGED <<user_locks, store, msg_session, msg_resume, msg_expect,
                   resets, reset_pending, msg_mark, nonAppVars>>

\* asyncio.to_thread raises; after the finally block the outer except replies
RunRaises(m) ==
    /\ task_pc[m] = "running"
    /\ task_pc' = [task_pc EXCEPT ![m] = "replying"]
    /\ UNCHANGED <<user_locks, store, msg_session, msg_resume, msg_result,
                   msg_expect, last_returned, resets, reset_pending, msg_mark, nonAppVars>>

\* status_msg.delete() returns or raises (ignored); store.save_session;
\* sender.send is called
DeleteStatus(m) ==
    /\ task_pc[m] = "deleting"
    /\ store' = [store EXCEPT ![user_id(m)] = msg_result[m]]
    /\ task_pc' = [task_pc EXCEPT ![m] = "sending"]
    /\ UNCHANGED <<user_locks, msg_session, msg_resume, msg_result, msg_expect,
                   last_returned, resets, reset_pending, msg_mark, nonAppVars>>

\* sender.send returns and the lock is released; or it raises, and the outer
\* except clause replies
SendAnswer(m, ok) ==
    /\ task_pc[m] = "sending"
    /\ IF ok
       THEN /\ task_pc' = [task_pc EXCEPT ![m] = "finished"]
            /\ user_locks' = [user_locks EXCEPT ![user_id(m)] = None]
       ELSE /\ task_pc' = [task_pc EXCEPT ![m] = "replying"]
            /\ UNCHANGED user_locks
    /\ UNCHANGED <<store, msg_session, msg_resume, msg_result, msg_expect,
                   last_returned, resets, reset_pending, msg_mark, nonAppVars>>

\* the reply of the outer except clause returns or raises (logged); the lock
\* is released
ErrorReply(m) ==
    /\ task_pc[m] = "replying"
    /\ task_pc' = [task_pc EXCEPT ![m] = "finished"]
    /\ user_locks' = [user_locks EXCEPT ![user_id(m)] = None]
    /\ UNCHANGED <<store, msg_session, msg_resume, msg_result, msg_expect,
                   last_returned, resets, reset_pending, msg_mark, nonAppVars>>

\* cmd_reset: store.reset_session(str(user_id))
CmdReset(u) ==
    /\ resets < MaxResets
    /\ resets' = resets + 1
    /\ store' = [store EXCEPT ![u] = None]
    /\ last_returned' = [last_returned EXCEPT ![u] = None]
    /\ reset_pending' = [reset_pending EXCEPT ![u] = TRUE]
    /\ UNCHANGED <<task_pc, user_locks, msg_session, msg_resume, msg_result,
                   msg_expect, msg_mark, nonAppVars>>

NextApp ==
    \/ \E m \in Messages : Arrive(m)
    \/ \E m \in Messages : Acquire(m)
    \/ \E m \in Messages, ok \in BOOLEAN : PostStatus(m, ok)
    \/ \E m \in Messages : \E sid \in ResultSids(msg_session[m]) : RunReturns(m, sid)
    \/ \E m \in Messages : RunRaises(m)
    \/ \E m \in Messages : DeleteStatus(m)
    \/ \E m \in Messages, ok \in BOOLEAN : SendAnswer(m, ok)
    \/ \E m \in Messages : ErrorReply(m)
    \/ \E u \in Users : CmdReset(u)

SpecApp == InitApp /\ [][NextApp]_vars

----------------------------------------------------------------------------
(* app.py: one _process_message with its status tasks and its run thread.    *)
(* The handler and the two tasks are coroutines of one event loop: an action  *)
(* is the code between two awaits. The thread runs beside them.              *)

\* the summary of the k-th tool_use block of the run
Summary(k) == ToString(k)

\* recent = tool_calls[-5:]
Recent(calls) == IF Len(calls) <= 5 THEN calls ELSE SubSeq(calls, Len(calls) - 4, Len(calls))

RECURSIVE StatusLines(_, _)
StatusLines(recent, i) ==
    IF i > Len(recent) THEN <<>>
    ELSE <<"\n", IF i = Len(recent) THEN ">" ELSE " ", " ", recent[i]>>
         \o StatusLines(recent, i + 1)

\* _format_status
_format_status(secs, calls) ==
    <<"Working... (", ToString(secs), "s)">> \o StatusLines(Recent(calls), 1)

\* a test that lets every render through
DiffersAlways(new_text, old_text) == TRUE

\* if new_text != last_status_text
Differs(new_text, old_text) == new_text # old_text

\* a history that takes new events at the front
AppendedInFront(calls, summary) == <<summary>> \o calls

\* tool_calls.append(evt.summary)
Appended(calls, summary) == Append(calls, summary)

\* an await that does not wait for the task
TaskDoneAlways(task_state) == TRUE

\* await status_task / await typing_task: the coroutine has returned
TaskDone(task_state) == task_state = "done"

\* an updater that records the text whether or not the edit went through
AfterEditAlways(ok, new_text, old_text) == new_text

\* last_status_text after the try block around status_msg.edit_text
AfterEdit(ok, new_text, old_text) == IF ok THEN new_text ELSE old_text

InitStatus ==
    /\ RunStart /\ session_id = None /\ has_queue = FALSE
    /\ SenderIdle
    /\ BreakIdle
    /\ AppIdle
    /\ StatusStart
    /\ ExtIdle

\* bot.send_message("Working...") returns: start_time is taken, both tasks
\* are created and run_streaming starts in a thread; or it raises, and the
\* outer except clause replies
PostReturns(ok) ==
    /\ h_pc = "posting"
    /\ IF ok
       THEN /\ status_msg' = "posted"
            /\ u_pc' = "start"
            /\ t_pc' = "start"
            /\ r_pc' = "reading"
            /\ h_pc' = "running"
       ELSE /\ h_pc' = "replying"
            /\ UNCHANGED <<status_msg, u_pc, t_pc, r_pc>>
    /\ UNCHANGED <<done_event, status_queue, pushed, st_tool_calls, elapsed,
                   last_status_text, edit_text, last_ok_edit, prev_failed,
                   u_last, drained, saved, answered, send_failed, signals, wakes,
                   nonStVars>>

\* the thread puts the summary of a tool_use block on the queue
\* (claude_runner.py: event_queue.put)
Push ==
    /\ r_pc = "reading"
    /\ Len(pushed) < MaxEvents
    /\ status_queue' = Append(status_queue, Summary(Len(pushed) + 1))
    /\ pushed' = Append(pushed, Summary(Len(pushed) + 1))
    /\ UNCHANGED <<h_pc, r_pc, u_pc, t_pc, done_event, st_tool_calls, elapsed,
                   last_status_text, edit_text, last_ok_edit, prev_failed,
                   u_last, drained, status_msg, saved, answered, send_failed,
                   signals, wakes, nonStVars>>

\* run_streaming returns its result to asyncio.to_thread, or the await raises
RunEnds(outcome) ==
    /\ r_pc = "reading"
    /\ r_pc' = outcome
    /\ UNCHANGED <<h_pc, u_pc, t_pc, done_event, status_queue, pushed,
                   st_tool_calls, elapsed, last_status_text, edit_text,
                   last_ok_edit, prev_failed, u_last, drained, status_msg, saved,
                   answered, send_failed, signals, wakes, nonStVars>>

\* finally: done_event.set(), then await status_task
RunDone ==
    /\ h_pc = "running"
    /\ r_pc \in {"returned", "raised"}
    /\ done_event' = TRUE
    /\ h_pc' = "await_status"
    /\ UNCHANGED <<r_pc, u_pc, t_pc, status_queue, pushed, st_tool_calls,
                   elapsed, last_status_text, edit_text, last_ok_edit,
                   prev_failed, u_last, drained, status_msg, saved, answered,
                   send_failed, signals, wakes, nonStVars>>

\* await status_task returns, then await typing_task
AwaitStatus ==
    /\ h_pc = "await_status"
    /\ TaskDone(u_pc)
    /\ h_pc' = "await_typing"
    /\ UNCHANGED <<r_pc, u_pc, t_pc, done_event, status_queue, pushed,
                   st_tool_calls, elapsed, last_status_text, edit_text,
                   last_ok_edit, prev_failed, u_last, drained, status_msg, saved,
                   answered, send_failed, signals, wakes, nonStVars>>

\* await typing_task returns: after a result status_msg.delete() is called,
\* after an exception the outer except clause replies
AwaitTyping ==
    /\ h_pc = "await_typing"
    /\ TaskDone(t_pc)
    /\ IF r_pc = "raised"
       THEN h_pc' = "replying" /\ UNCHANGED status_msg
       ELSE h_pc' = "deleting" /\ status_msg' = "deleting"
    /\ UNCHANGED <<r_pc, u_pc, t_pc, done_event, status_queue, pushed,
                   st_tool_calls, elapsed, last_status_text, edit_text,
                   last_ok_edit, prev_failed, u_last, drained, saved, answered,
                   send_failed, signals, wakes, nonStVars>>

\* status_msg.delete() returns or raises (ignored); store.save_session;
\* sender.send is called
DeleteReturns(ok) ==
    /\ h_pc = "deleting"
    /\ status_msg' = (IF ok THEN "deleted" ELSE "posted")
    /\ saved' = TRUE
    /\ h_pc' = "sending"
    /\ UNCHANGED <<r_pc, u_pc, t_pc, done_event, status_queue, pushed,
                   st_tool_calls, elapsed, last_status_text, edit_text,
                   last_ok_edit, prev_failed, u_last, drained, answered,
                   send_failed, signals, wakes, nonStVars>>

\* sender.send returns; or it raises and the outer except clause replies
SendReturns(ok) ==
    /\ h_pc = "sending"
    /\ IF ok
       THEN answered' = TRUE /\ h_pc' = "finished" /\ UNCHANGED send_failed
       ELSE send_failed' = TRUE /\ h_pc' = "replying" /\ UNCHANGED answered
    /\ UNCHANGED <<r_pc, u_pc, t_pc, done_event, status_queue, pushed,
                   st_tool_calls, elapsed, last_status_text, edit_text,
                   last_ok_edit, prev_failed, u_last, drained, status_msg, saved,
                   signals, wakes, nonStVars>>

\* the reply of the outer except clause returns or raises (logged)
ReplyReturns ==
    /\ h_pc = "replying"
    /\ h_pc' = "finished"
    /\ UNCHANGED <<r_pc, u_pc, t_pc, done_event, status_queue, pushed,
                   st_tool_calls, elapsed, last_status_text, edit_text,
                   last_ok_edit, prev_failed, u_last, drained, status_msg, saved,
                   answered, send_failed, signals, wakes, nonStVars>>

\* update_status: while not done_event.is_set()
StatusCheck ==
    /\ u_pc = "start"
    /\ IF done_event
       THEN u_pc' = "done" /\ UNCHANGED drained
       ELSE u_pc' = "draining" /\ drained' = 0
    /\ UNCHANGED <<h_pc, r_pc, t_pc, done_event, status_queue, pushed,
                   st_tool_calls, elapsed, last_status_text, edit_text,
                   last_ok_edit, prev_failed, u_last, status_msg, saved,
                   answered, send_failed, signals, wakes, nonStVars>>

\* evt = event_queue.get_nowait(); tool_calls.append(evt.summary)
DrainOne ==
    /\ u_pc = "draining"
    /\ status_queue # <<>>
    /\ st_tool_calls' = Appended(st_tool_calls, Head(status_queue))
    /\ status_queue' = Tail(status_queue)
    /\ drained' = drained + 1
    /\ UNCHANGED <<h_pc, r_pc, u_pc, t_pc, done_event, pushed, elapsed,
                   last_status_text, edit_text, last_ok_edit, prev_failed,
                   u_last, status_msg, saved, answered, send_failed, signals,
                   wakes, nonStVars>>

\* queue.Empty: the text is rendered, and edited into the status message
\* when it differs from last_status_text
Render ==
    /\ u_pc = "draining"
    /\ status_queue = <<>>
    /\ LET new_text == _format_status(elapsed, st_tool_calls) IN
         IF Differs(new_text, last_status_text)
         THEN /\ edit_text' = new_text
              /\ u_pc' = "editing"
              /\ UNCHANGED u_last
         ELSE /\ u_last' = "skipped"
              /\ u_pc' = "sleeping"
              /\ UNCHANGED edit_text
    /\ UNCHANGED <<h_pc, r_pc, t_pc, done_event, status_queue, pushed,
                   st_tool_calls, elapsed, last_status_text, last_ok_edit,
                   prev_failed, drained, status_msg, saved, answered,
                   send_failed, signals, wakes, nonStVars>>

\* status_msg.edit_text returns (last_status_text = new_text) or raises (pass)
EditReturns(ok) ==
    /\ u_pc = "editing"
    /\ last_status_text' = AfterEdit(ok, edit_text, last_status_text)
    /\ IF ok
       THEN /\ last_ok_edit' = Some(edit_text)
            /\ prev_failed' = None
            /\ u_last' = "ok"
       ELSE /\ prev_failed' = Some(edit_text)
            /\ u_last' = "failed"
            /\ UNCHANGED last_ok_edit
    /\ u_pc' = "sleeping"
    /\ UNCHANGED <<h_pc, r_pc, t_pc, done_event, status_queue, pushed,
                   st_tool_calls, elapsed, edit_text, drained, status_msg, saved,
                   answered, send_failed, signals, wakes, nonStVars>>

\* asyncio.wait_for(done_event.wait(), timeout=3) times out: a period has passed
StatusTimeout ==
    /\ u_pc = "sleeping"
    /\ ~done_event
    /\ wakes < MaxWakes
    /\ wakes' = wakes + 1
    /\ elapsed' = elapsed + 1
    /\ u_pc' = "start"
    /\ UNCHANGED <<h_pc, r_pc, t_pc, done_event, status_queue, pushed,
                   st_tool_calls, last_status_text, edit_text, last_ok_edit,
                   prev_failed, u_last, drained, status_msg, saved, answered,
                   send_failed, signals, nonStVars>>

\* asyncio.wait_for(done_event.wait(), timeout=3) returns: the event is set
StatusWoken ==
    /\ u_pc = "sleeping"
    /\ done_event
    /\ u_pc' = "start"
    /\ UNCHANGED <<h_pc, r_pc, t_pc, done_event, status_queue, pushed,
                   st_tool_calls, elapsed, last_status_text, edit_text,
                   last_ok_edit, prev_failed, u_last, drained, status_msg, saved,
                   answered, send_failed, signals, wakes, nonStVars>>

\* keep_typing: while not done_event.is_set(): send_chat_action is called
TypingCheck ==
    /\ t_pc = "start"
    /\ IF done_event
       THEN t_pc' = "done" /\ UNCHANGED signals
       ELSE t_pc' = "signaling" /\ signals' = signals + 1
    /\ UNCHANGED <<h_pc, r_pc, u_pc, done_event, status_queue, pushed,
                   st_tool_calls, elapsed, last_status_text, edit_text,
                   last_ok_edit, prev_failed, u_last, drained, status_msg, saved,
                   answered, send_failed, wakes, nonStVars>>

\* send_chat_action returns or raises (pass)
TypingSignalReturns ==
    /\ t_pc = "signaling"
    /\ t_pc' = "sleeping"
    /\ UNCHANGED <<h_pc, r_pc, u_pc, done_event, status_queue, pushed,
                   st_tool_calls, elapsed, last_status_text, edit_text,
                   last_ok_edit, prev_failed, u_last, drained, status_msg, saved,
                   answered, send_failed, signals, wakes, nonStVars>>

\* asyncio.wait_for(done_event.wait(), timeout=5) times out
TypingTimeout ==
    /\ t_pc = "sleeping"
    /\ ~done_event
    /\ signals < MaxSignals
    /\ t_pc' = "start"
    /\ UNCHANGED <<h_pc, r_pc, u_pc, done_event, status_queue, pushed,
                   st_tool_calls, elapsed, last_status_text, edit_text,
                   last_ok_edit, prev_failed, u_last, drained, status_msg, saved,
                   answered, send_failed, signals, wakes, nonStVars>>

\* asyncio.wait_for(done_event.wait(), timeout=5) returns: the event is set
TypingWoken ==
    /\ t_pc = "sleeping"
    /\ done_event
    /\ t_pc' = "start"
    /\ UNCHANGED <<h_pc, r_pc, u_pc, done_event, status_queue, pushed,
                   st_tool_calls, elapsed, last_status_text, edit_text,
                   last_ok_edit, prev_failed, u_last, drained, status_msg, saved,
                   answered, send_failed, signals, wakes, nonStVars>>

NextStatus ==
    \/ \E ok \in BOOLEAN : PostReturns(ok)
    \/ Push
    \/ \E outcome \in {"returned", "raised"} : RunEnds(outcome)
    \/ RunDone
    \/ AwaitStatus
    \/ AwaitTyping
    \/ \E ok \in BOOLEAN : DeleteReturns(ok)
    \/ \E ok \in BOOLEAN : SendReturns(ok)
    \/ ReplyReturns
    \/ StatusCheck
    \/ DrainOne
    \/ Render
    \/ \E ok \in BOOLEAN : EditReturns(ok)
    \/ StatusTimeout
    \/ StatusWoken
    \/ TypingCheck
    \/ TypingSignalReturns
    \/ TypingTimeout
    \/ TypingWoken

\* every call awaited returns or raises, and the event loop runs every
\* coroutine that can run
SpecStatus == InitStatus /\ [][NextStatus]_vars /\ WF_vars(NextStatus)

----------------------------------------------------------------------------
(* _build_cmd: the command line of one run.  Every element of the list is a
   text; a path is a sequence of components and "/" separators. *)

MaxPaths == 2

Sep == "/"
FilePaths == { <<Sep, "tmp", Sep, "a.jpg">>, <<Sep, "tmp", Sep, "b.pdf">>,
               <<Sep, "srv", Sep, "a.jpg">>, <<"a.jpg">> }
PathLists == UNION { [1..n -> FilePaths] : n \in 0..MaxPaths }

\* text.rstrip(sep)
RECURSIVE rstripSep(_)
rstripSep(p) ==
    IF p # <<>> /\ p[Len(p)] = Sep THEN rstripSep(SubSeq(p, 1, Len(p) - 1)) ELSE p

\* os.path.dirname(path): everything up to the last separator, without
\* trailing separators unless it consists of separators only
dirname(path) ==
    LET seps == { i \in 1..Len(path) : path[i] = Sep }
        i == IF seps = {} THEN 0 ELSE CHOOSE k \in seps : \A j \in seps : j <= k
        head == SubSeq(path, 1, i)
    IN IF head # <<>> /\ (\E k \in 1..Len(head) : head[k] # Sep)
       THEN rstripSep(head) ELSE head

\* a list of strings as a list of texts
Words(strs) == [i \in DOMAIN strs |-> <<strs[i]>>]

\* for path in file_paths: cmd.extend(["--add-dir", os.path.dirname(path)])
RECURSIVE AddDirs(_)
AddDirs(paths) ==
    IF paths = <<>> THEN <<>>
    ELSE << <<"--add-dir">>, dirname(Head(paths)) >> \o AddDirs(Tail(paths))

_build_cmd(a) ==
    LET fmt == IF a.streaming THEN "stream-json" ELSE "json"
        base == Words(<<"claude", "-p", a.prompt, "--output-format", fmt, "--verbose">>)
        dirs == IF a.file_paths # None THEN AddDirs(a.file_paths[1]) ELSE <<>>
        resume == Words(Resume(a.session_id))
        tools == IF a.allowed_tools # ""
                 THEN Words(<<"--allowedTools", a.allowed_tools>>) ELSE <<>>
        budget == IF a.max_budget_usd > 0
                  THEN Words(<<"--max-budget-usd", ToString(a.max_budget_usd)>>)
                  ELSE <<>>
        sysp == IF a.system_prompt # ""
                THEN Words(<<"--append-system-prompt", a.system_prompt>>) ELSE <<>>
    IN base \o dirs \o resume \o tools \o budget \o sysp

InitCmd ==
    /\ RunStart /\ session_id = None /\ has_queue = FALSE
    /\ SenderIdle
    /\ BreakIdle
    /\ AppIdle
    /\ StatusStart
    /\ GateIdle
    /\ DeliverIdle
    /\ cmd_args \in [prompt : {"hi"},
                     session_id : Opt({"", "s0"}),
                     file_paths : Opt(PathLists),
                     streaming : BOOLEAN,
                     allowed_tools : {"", "Read"},
                     max_budget_usd : {0, 1},
                     system_prompt : {"", "be brief"}]
    /\ cmd = None

\* run_streaming line 112: cmd = self._build_cmd(...)
BuildCmd ==
    /\ cmd = None
    /\ cmd' = Some(_build_cmd(cmd_args))
    /\ UNCHANGED <<cmd_args, nonCmdVars>>

NextCmd == BuildCmd

SpecCmd == InitCmd /\ [][NextCmd]_vars

----------------------------------------------------------------------------
(* app.py: every handler, from the allowlist check to its return.  What a
   handler did is recorded by name: the calls on the store, on the sender and
   on the runner, and the replies. *)

\* an allowlist that lets everyone in
IsAllowedAnyone(uid, allowed) == TRUE

_is_allowed(uid, allowed) ==
    IF allowed = {} THEN TRUE ELSE uid \in allowed

\* /prompt with and without an argument
PromptTexts == {"", "be brief"}

\* the answers of a run: a short one and one that is truncated
AnswerTexts == {Old, Run(Letter, TRUNCATE_THRESHOLD + 1)}

InitGate ==
    /\ RunStart /\ session_id = None /\ has_queue = FALSE
    /\ SenderIdle
    /\ BreakIdle
    /\ AppIdle
    /\ StatusStart
    /\ CmdIdle
    /\ DeliverIdle
    /\ allowed_users \in SUBSET Users
    /\ g_store \in [Users -> Opt({"s0"})]
    /\ g_overflow = NoOverflow
    /\ system_prompt \in PromptTexts
    /\ g_event = [user |-> 0, did |-> {}, changed |-> FALSE]

\* the handler of an event of user u returns, having done `did` and left the
\* store, the overflow and the system prompt as st, ov and sp
Handled(u, did, st, ov, sp) ==
    /\ g_store' = st
    /\ g_overflow' = ov
    /\ system_prompt' = sp
    /\ g_event' = [user |-> u, did |-> did,
                   changed |-> <<st, ov, sp>> # <<g_store, g_overflow, system_prompt>>]
    /\ UNCHANGED <<allowed_users, nonGateVars>>

\* if not _is_allowed(user_id): return
Blocked(u) == Handled(u, {"blocked"}, g_store, g_overflow, system_prompt)

\* a handler that only replies
Replied(u, did) == Handled(u, did \cup {"reply"}, g_store, g_overflow, system_prompt)

\* cmd_start has no allowlist check
cmd_start(u) == Replied(u, {})

cmd_help(u) ==
    IF ~_is_allowed(u, allowed_users) THEN Blocked(u) ELSE Replied(u, {})

cmd_reset(u) ==
    IF ~_is_allowed(u, allowed_users) THEN Blocked(u)
    ELSE Handled(u, {"reset_session", "reply"}, [g_store EXCEPT ![u] = None],
                 g_overflow, system_prompt)

cmd_status(u) ==
    IF ~_is_allowed(u, allowed_users) THEN Blocked(u)
    ELSE Replied(u, {"get_session", "list_sessions"})

cmd_cost(u) ==
    IF ~_is_allowed(u, allowed_users) THEN Blocked(u)
    ELSE Replied(u, {"get_cost", "list_sessions"})

cmd_prompt(u, text) ==
    IF ~_is_allowed(u, allowed_users) THEN Blocked(u)
    ELSE IF text = "" THEN Replied(u, {"read_prompt"})
    ELSE Handled(u, {"set_prompt", "reply"}, g_store, g_overflow, text)

cmd_more(u) ==
    IF ~_is_allowed(u, allowed_users) THEN Blocked(u)
    ELSE IF has_overflow(g_overflow, u)
    THEN Handled(u, {"pop_overflow", "send"}, g_store,
                 send_more(u, g_overflow).overflow, system_prompt)
    ELSE Replied(u, {})

\* _process_message: posting "Working..." raises; or the run raises; or the
\* run returns session id sid and the answer text, which is saved and sent
_process_message(u, outcome, sid, text, did) ==
    CASE outcome = "post_raises" -> Replied(u, did \cup {"get_session"})
      [] outcome = "run_raises" -> Replied(u, did \cup {"get_session", "launch"})
      [] outcome = "returns" ->
            Handled(u, did \cup {"get_session", "launch", "save_session", "send"},
                    [g_store EXCEPT ![u] = Some(sid)],
                    send(u, text, g_overflow).overflow, system_prompt)

Outcomes == {"post_raises", "run_raises", "returns"}

handle_message(u, outcome, sid, text) ==
    IF ~_is_allowed(u, allowed_users) THEN Blocked(u)
    ELSE _process_message(u, outcome, sid, text, {})

\* _download_file returns a path, or None for an unsupported message
handle_photo_or_document(u, has_file, outcome, sid, text) ==
    IF ~_is_allowed(u, allowed_users) THEN Blocked(u)
    ELSE IF ~has_file THEN Replied(u, {"download"})
    ELSE _process_message(u, outcome, sid, text, {"download"})

NextGate ==
    \/ \E u \in Users : cmd_start(u)
    \/ \E u \in Users : cmd_help(u)
    \/ \E u \in Users : cmd_reset(u)
    \/ \E u \in Users : cmd_status(u)
    \/ \E u \in Users : cmd_cost(u)
    \/ \E u \in Users, text \in PromptTexts : cmd_prompt(u, text)
    \/ \E u \in Users : cmd_more(u)
    \/ \E u \in Users, outcome \in Outcomes, text \in AnswerTexts :
          \E sid \in ResultSids(g_store[u]) : handle_message(u, outcome, sid, text)
    \/ \E u \in Users, has_file \in BOOLEAN, outcome \in Outcomes, text \in AnswerTexts :
          \E sid \in ResultSids(g_store[u]) :
              handle_photo_or_document(u, has_file, outcome, sid, text)

SpecGate == InitGate /\ [][NextGate]_vars

----------------------------------------------------------------------------
(* MessageSender.send chunk by chunk: `for chunk in chunks: await
   bot.send_message(...)`.  The answer of one chat and the /more commands of
   the same chat are handled by coroutines of one event loop; an action is
   the code of a handler between two awaits. *)

\* the chat all of it is about
K == 1

\* the answers: long enough to be truncated
MaxPrefix == 2
DeliverTexts ==
    { h \o Run(Letter, TRUNCATE_THRESHOLD + 1) : h \in { x \in Heads : Len(x) <= MaxPrefix } }

NoMoreReply == <<"No more content to send.">>

InitDeliver ==
    /\ RunStart /\ session_id = None /\ has_queue = FALSE
    /\ SenderIdle
    /\ BreakIdle
    /\ AppIdle
    /\ StatusStart
    /\ CmdIdle
    /\ GateIdle
    /\ dl_answer \in DeliverTexts
    /\ dl_overflow \in {NoOverflow, [c \in Chats |-> Some(Old)]}
    /\ dl_pc = [t \in Tasks |-> "idle"]
    /\ dl_pending = [t \in Tasks |-> <<>>]
    /\ wire = <<>>
    /\ early_pop = FALSE

\* the start of send for handler t: _prepare_chunks has returned r; the first
\* chunk is passed to bot.send_message and the handler waits for it
BeginChunks(t, r) ==
    /\ dl_overflow' = r.overflow
    /\ wire' = Append(wire, [by |-> t, chunk |-> Head(r.chunks)])
    /\ dl_pending' = [dl_pending EXCEPT ![t] = Tail(r.chunks)]
    /\ dl_pc' = [dl_pc EXCEPT ![t] = "sending"]

\* _process_message line 266: await sender.send(user_id, text)
SendBegins ==
    /\ dl_pc[AnswerTask] = "idle"
    /\ BeginChunks(AnswerTask, send(K, dl_answer, dl_overflow))
    /\ UNCHANGED <<dl_answer, early_pop, nonDlvVars>>

\* bot.send_message returns: the next chunk is passed to it, or the loop and
\* the handler end; or it raises, for the plain text as well, and send raises
ChunkSent(t, ok) ==
    /\ dl_pc[t] = "sending"
    /\ IF ok /\ dl_pending[t] # <<>>
       THEN /\ wire' = Append(wire, [by |-> t, chunk |-> Head(dl_pending[t])])
            /\ dl_pending' = [dl_pending EXCEPT ![t] = Tail(dl_pending[t])]
            /\ UNCHANGED dl_pc
       ELSE /\ dl_pc' = [dl_pc EXCEPT ![t] = "done"]
            /\ dl_pending' = [dl_pending EXCEPT ![t] = <<>>]
            /\ UNCHANGED wire
    /\ UNCHANGED <<dl_answer, dl_overflow, early_pop, nonDlvVars>>

\* cmd_more: with an overflow for the chat, send_more pops it and send begins;
\* without, "No more content to send." is the reply
MoreBegins(t) ==
    /\ dl_pc[t] = "idle"
    /\ IF has_overflow(dl_overflow, K)
       THEN LET r == send_more(K, dl_overflow) IN
              /\ BeginChunks(t, r)
              /\ early_pop' = (early_pop \/ dl_pc[AnswerTask] = "sending")
       ELSE /\ wire' = Append(wire, [by |-> t, chunk |-> NoMoreReply])
            /\ dl_pc' = [dl_pc EXCEPT ![t] = "sending"]
            /\ UNCHANGED <<dl_overflow, dl_pending, early_pop>>
    /\ UNCHANGED <<dl_answer, nonDlvVars>>

NextDeliver ==
    \/ SendBegins
    \/ \E t \in Tasks, ok \in BOOLEAN : ChunkSent(t, ok)
    \/ \E t \in MoreTasks : MoreBegins(t)

SpecDeliver == InitDeliver /\ [][NextDeliver]_vars

----------------------------------------------------------------------------
(* Properties of one message and its status tasks, checked under SpecStatus *)

BothTerminated == u_pc = "done" /\ t_pc = "done"

RunCompleted == r_pc \in {"returned", "raised"}

\* status_msg.delete() has been called
DeleteIssued == status_msg \in {"deleting", "deleted"} \/ saved

\* C17: once the run completes, with a result or an exception, done_event is
\* set and both tasks terminate; the delete of the status message is issued
\* only when both have terminated, so no edit and no typing signal follows it.
C17_TasksEndBeforeDelete ==
    /\ [](DeleteIssued => (BothTerminated /\ done_event))
    /\ (RunCompleted ~> (done_event /\ BothTerminated))

\* the status message was edited and typing was signalled, and the message
\* is now deleted
C17_Witness ==
    /\ status_msg = "deleted"
    /\ last_ok_edit # None
    /\ signals >= 1
    /\ BothTerminated

IsPrefix(a, b) == Len(a) <= Len(b) /\ a = SubSeq(b, 1, Len(a))

\* C18: the updater's tool-call history is at every moment a prefix of what
\* the thread has pushed (the rest being still on the queue, in order), and
\* every step leaves the old history as a prefix of the new one.
C18_HistoryIsPrefix ==
    /\ [](IsPrefix(st_tool_calls, pushed) /\ st_tool_calls \o status_queue = pushed)
    /\ [][IsPrefix(st_tool_calls, st_tool_calls')]_vars

\* one wake-up appended a single event, a later one two
C18_Witness ==
    /\ Len(st_tool_calls) = 3
    /\ drained = 2
    /\ wakes >= 1

LastOkText == IF last_ok_edit = None THEN <<>> ELSE last_ok_edit[1]

\* C19 (as claimed): no edit is issued with the text of the last edit that
\* succeeded; a failed edit leaves last_status_text alone, and the edit of the
\* next wake-up carries the same text again.
C19_SameTextRetried ==
    /\ u_pc = "editing" => edit_text # LastOkText
    /\ last_status_text = LastOkText
    /\ (u_pc = "editing" /\ prev_failed # None) => edit_text = prev_failed[1]

\* C19 (amended): no edit is issued with the text of the last edit that
\* succeeded; a failed edit leaves last_status_text alone, and the render of
\* the next wake-up is not skipped: it is issued as an edit again.
C19_NoRepeatedEdit ==
    /\ u_pc = "editing" => edit_text # LastOkText
    /\ last_status_text = LastOkText
    /\ u_last = "skipped" => prev_failed = None

\* an edit failed, and the next wake-up issues an edit with its own render
C19_Witness ==
    /\ u_pc = "editing"
    /\ prev_failed # None
    /\ edit_text # prev_failed[1]
    /\ last_ok_edit # None

\* C20: when no call fails but calls on the status message or the typing
\* signal, the run is launched and returns, its session id is saved and its
\* answer is sent.
C20_StatusFailuresIgnored ==
    (h_pc = "finished" /\ ~send_failed /\ r_pc # "raised")
        => (r_pc = "returned" /\ saved /\ answered)

----------------------------------------------------------------------------
(* Properties of the message handlers, checked under SpecApp *)

\* m is between reading the stored session id and the end of its answer
InFlight(m) == task_pc[m] \in {"posting", "running", "deleting", "sending", "replying"}

\* C15: at most one message of a user is in flight (from reading the stored
\* session id until its answer is sent) at any time; a message waiting for
\* the lock can take it whenever no message of the same user is in flight,
\* whatever the messages of other users are doing.
C15_OneRunPerUser ==
    /\ \A m1, m2 \in Messages :
           (m1 # m2 /\ user_id(m1) = user_id(m2)) => ~(InFlight(m1) /\ InFlight(m2))
    /\ \A m \in Messages :
           (/\ task_pc[m] = "wait_lock"
            /\ \A o \in Messages \ {m} : user_id(o) = user_id(m) => ~InFlight(o))
               => ENABLED Acquire(m)

\* runs of two users are under way at once while a second message of one of
\* them waits
C15_Witness ==
    /\ task_pc["m1"] = "running"
    /\ task_pc["m3"] = "running"
    /\ task_pc["m2"] = "wait_lock"

\* C16: a run launched after a run of the same user returned session id S,
\* with no /reset of the user since, carries --resume S; a run carries no
\* --resume only when the stored session id it read was missing or empty.
C16_ResumeLastSession ==
    \A m \in Messages :
        msg_resume[m] # None =>
            /\ (msg_expect[m] # None /\ msg_expect[m][1] # "")
                   => msg_resume[m][1] = <<"--resume", msg_expect[m][1]>>
            /\ msg_resume[m][1] = <<>> => msg_session[m] \in {None, Some("")}

\* the second message of user 1 resumed the session its first run returned
C16_Witness ==
    /\ msg_result["m1"] = Some("s1")
    /\ msg_expect["m2"] = Some("s1")
    /\ msg_resume["m2"] = Some(<<"--resume", "s1">>)

\* C22: the first message of a user that arrives after a /reset of that user
\* has its run launched without --resume, whatever else is under way.
C22_FreshAfterReset ==
    \A m \in Messages : msg_mark[m] = "fresh" => msg_resume[m] = Some(<<>>)

----------------------------------------------------------------------------
(* Properties of run_streaming, checked under Spec *)

Returned == pc = "returned"

ErrorHeads ==
    {TimeoutText[1], FaultText("")[1], ExitText(0, "")[1], NoResultText[1]}

\* the result was built from a result record, not from an error message
BuiltFromRecord(r) == r.text[1] \notin ErrorHeads

Contains(text, piece) == \E i \in DOMAIN text : text[i] = piece

LastResult == seen_results[Len(seen_results)]

\* C1: as long as run_streaming has not returned, at most max_timeout ticks
\* have passed since the subprocess was started (the kill takes no time in
\* this model): no wait inside run_streaming outlasts the timeout.
C1_ReturnsWithinTimeout ==
    pc \in {"reading", "waiting"} => clock <= max_timeout

\* C2: run_streaming never raises; on every failure kind (timeout, launch
\* failure, stream fault, non-zero exit, clean exit without result record)
\* it returns a ClaudeResult with is_error = TRUE and a non-empty text, and
\* is_error = FALSE is returned only on the success path.
C2_NeverRaises ==
    /\ pc # "raised"
    /\ Returned =>
        /\ ret # None
        /\ Len(ret[1].text) > 0
        /\ exc # "" => ret[1].is_error
        /\ (returncode # None /\ returncode # Some(0)) => ret[1].is_error
        /\ (returncode = Some(0) /\ seen_results = <<>>) => ret[1].is_error
        /\ ~ret[1].is_error =>
              exc = "" /\ returncode = Some(0) /\ seen_results # <<>>

\* a failure to launch the executable came back as an error result
C2_Witness ==
    Returned /\ exc = "FileNotFoundError" /\ ret[1].is_error /\ proc = "none"

\* C3: reading a line that does not decode into a recognised event has no
\* effect: the reader stays in its loop and tool_calls, result_obj,
\* final_session_id and the queue are unchanged, so the run ends as if the
\* line had not been emitted.
C3_MalformedLineDropped ==
    [][\A line \in Lines :
          (IsMalformed(line) /\ ReadLine(line)) =>
              /\ pc' = "reading"
              /\ UNCHANGED <<tool_calls, result_obj, final_session_id,
                             event_queue, ret>>]_vars

\* C4: the outcome is the first applicable case in the order timeout, fault,
\* non-zero exit, no result record, success: a non-zero exit gives an error
\* text holding the exit code even when a result record was read, a result
\* record read before a timeout does not give success, and success is
\* returned only for exit code 0 with a result record read.
C4_OutcomeOrder ==
    Returned =>
        LET r == ret[1] IN
        /\ IF exc = "TimeoutExpired" THEN
               r.is_error /\ r.text = TimeoutText
           ELSE IF exc # "" THEN
               r.is_error /\ r.text = FaultText(exc)
           ELSE IF returncode # Some(0) THEN
               /\ r.is_error
               /\ r.text[1] = ExitText(0, "")[1]
               /\ Contains(r.text, ToString(returncode[1]))
           ELSE IF seen_results = <<>> THEN
               r.is_error /\ r.text = NoResultText
           ELSE BuiltFromRecord(r)
        /\ BuiltFromRecord(r) =>
               exc = "" /\ returncode = Some(0) /\ seen_results # <<>>

\* a non-zero exit after a result record was read
C4_Witness ==
    Returned /\ exc = "" /\ returncode = Some(1) /\ seen_results # <<>>

\* C5: when the subprocess exited with code 0 and a result record was read,
\* the returned result is built from the last result record read: its result
\* field as text (the placeholder when the field is empty or missing, never
\* an empty text), its session_id, its total_cost_usd and its is_error flag
\* (FALSE when absent).
C5_SuccessFromLastResult ==
    (Returned /\ returncode = Some(0) /\ seen_results # <<>>) =>
        LET r == ret[1]
            rec == LastResult
        IN  /\ r.text = (IF "result" \in DOMAIN rec /\ rec.result # ""
                         THEN <<rec.result>> ELSE EmptyResponseText)
            /\ r.text # <<"">>
            /\ "session_id" \in DOMAIN rec => r.session_id = rec.session_id
            /\ r.cost_usd = (IF "total_cost_usd" \in DOMAIN rec
                             THEN rec.total_cost_usd ELSE 0)
            /\ r.is_error = (IF "is_error" \in DOMAIN rec THEN rec.is_error ELSE FALSE)

\* exit code 0 after two different result records
C5_Witness ==
    /\ Returned /\ returncode = Some(0)
    /\ Len(seen_results) = 2 /\ seen_results[1] # seen_results[2]
    /\ ret[1].text = <<"r1">>

\* C6 as stated: whenever an init or result record carrying a session id was
\* read, the returned session_id is the id of the most recent such record, on
\* every return path; so it is empty only when no such record was read.
C6_LatestSessionEverywhere ==
    Returned =>
        /\ seen_sid # None => ret[1].session_id = seen_sid[1]
        /\ ret[1].session_id = "" => seen_sid = None

SuccessPath == Returned /\ exc = "" /\ returncode = Some(0) /\ seen_results # <<>>

\* the latest session id known to the call: the most recent record carrying
\* one, else the session_id argument, else ""
LatestSid ==
    IF seen_sid # None THEN seen_sid[1]
    ELSE IF session_id # None THEN session_id[1] ELSE ""

\* C6 amended: the returned session_id is empty only when no session id was
\* passed in and no init or result record carrying one was read. On every
\* error return path it is the id of the most recent init or result record
\* carrying one; on the success path it is the session_id of the last result
\* record when that record carries one (even if an init record with another
\* id was read after it), otherwise again the most recent id.
C6_SessionIdReturned ==
    Returned =>
        LET r == ret[1] IN
        /\ r.session_id = "" => (session_id = None /\ seen_sid = None)
        /\ ~SuccessPath => r.session_id = LatestSid
        /\ SuccessPath =>
              r.session_id = (IF "session_id" \in DOMAIN LastResult
                              THEN LastResult.session_id ELSE LatestSid)

\* success where an init record read after the last result record carries
\* another id than the one returned
C6_Witness ==
    SuccessPath /\ seen_sid # None /\ ret[1].session_id # seen_sid[1]

\* C7: on every return path the returned tool_calls is the sequence of the
\* summaries of all tool_use blocks read so far, in arrival order.
C7_ToolCallsPreserved ==
    Returned =>
        /\ Len(ret[1].tool_calls) = Len(seen_tools)
        /\ \A i \in 1..Len(seen_tools) :
              ret[1].tool_calls[i] =
                  _summarize_tool(Get(seen_tools[i], "name", "?"),
                                  Get(seen_tools[i], "input", EmptyDict))

\* a timeout after two tool_use blocks with different summaries
C7_Witness ==
    /\ Returned /\ exc = "TimeoutExpired"
    /\ Len(ret[1].tool_calls) = 2
    /\ ret[1].tool_calls[1] # ret[1].tool_calls[2]

\* C21: whenever run_streaming has returned, the subprocess it started is no
\* longer running: it has exited by itself or has been killed.
C21_ProcessGoneAtReturn ==
    Returned => proc # "running"

----------------------------------------------------------------------------
(* Properties of the delivery chunk by chunk, checked under SpecDeliver *)

\* the chunks of the answer follow one another on the wire
AnswerContiguous ==
    \A i, j \in DOMAIN wire :
        (i < j /\ wire[i].by = AnswerTask /\ wire[j].by = AnswerTask)
            => \A k \in i..j : wire[k].by = AnswerTask

\* C26: no /more puts a message between two chunks of an answer, and no /more
\* pops the chat's overflow while an answer of the chat is being sent.
C26_MoreWaitsForAnswer ==
    AnswerContiguous /\ ~early_pop

----------------------------------------------------------------------------
(* Properties of the allowlist, checked under SpecGate *)

\* what the allowlist protects: launching a run, reading, saving and
\* resetting a session, consuming an overflow, changing the system prompt
Sensitive ==
    {"launch", "get_session", "list_sessions", "get_cost", "save_session",
     "reset_session", "pop_overflow", "set_prompt"}

\* the event handled last came from a user outside a non-empty allowlist
FromOutsider ==
    /\ allowed_users # {}
    /\ g_event.user \in Users \ allowed_users

\* C24: with a non-empty allowlist, the handler of an event from a user outside
\* it launches no run, does not read, save or reset a session, consumes no
\* overflow, does not set the system prompt, and leaves the store, the
\* overflow and the system prompt as they were.
C24_OutsidersDoNothing ==
    FromOutsider => (g_event.did \cap Sensitive = {} /\ ~g_event.changed)

\* C24 witness: with user 1 allowed and a session and an overflow stored for
\* user 2 earlier, an event of user 2 has been stopped by the allowlist check.
C24_Witness ==
    /\ allowed_users = {1}
    /\ g_event.user = 2
    /\ "blocked" \in g_event.did
    /\ g_store[2] # None
    /\ g_overflow[1] # None

----------------------------------------------------------------------------
(* Properties of _build_cmd, checked under SpecCmd *)

\* the number of --add-dir directives of the command line c that name d
AddDirCount(c, d) ==
    Cardinality({ i \in 1..(Len(c) - 1) : c[i] = <<"--add-dir">> /\ c[i + 1] = d })

\* the containing directories of the file paths passed
Directories(a) ==
    IF a.file_paths = None THEN {}
    ELSE { dirname(a.file_paths[1][k]) : k \in 1..Len(a.file_paths[1]) }

\* C23: the command line holds exactly one --add-dir directive for each
\* distinct containing directory of the file paths, and no other --add-dir.
C23_OneAddDirPerDirectory ==
    cmd # None =>
        /\ \A d \in Directories(cmd_args) : AddDirCount(cmd[1], d) = 1
        /\ Cardinality({ i \in 1..Len(cmd[1]) : cmd[1][i] = <<"--add-dir">> })
              = Cardinality(Directories(cmd_args))

----------------------------------------------------------------------------
(* Properties of the sender, checked under SpecSender *)

\* a chunk without its "[i/N] " counter
Body(chunk) ==
    IF Len(chunk) >= 6 /\ chunk[1] = "[" /\ chunk[3] = "/" /\ chunk[5] = "]"
    THEN After(chunk, 6)
    ELSE chunk

RECURSIVE Joined(_)
Joined(chunks) ==
    IF chunks = <<>> THEN <<>> ELSE Body(Head(chunks)) \o Joined(Tail(chunks))

\* what a reader gets from the chunks, whitespace aside
Delivered(chunks) == SelectSeq(Joined(chunks), LAMBDA ch : ch \notin Whitespace)

Squeeze(text) == SelectSeq(text, LAMBDA ch : ch \notin Whitespace)

\* sending `text` for chat_id delivered a prefix of it of at most
\* TRUNCATE_THRESHOLD characters followed by the marker, and stored the rest
TruncatedAt(chat_id, text, chunks, ovf) ==
    \E cut \in 1..TRUNCATE_THRESHOLD :
        /\ ovf[chat_id] = Some(After(text, cut))
        /\ Delivered(chunks) = Squeeze(Before(text, cut)) \o Squeeze(MARKER)

\* C8: every chunk handed to the transport, counter and truncation marker
\* included, is at most TELEGRAM_MAX characters long.
C8_ChunkWithinLimit ==
    \A i \in DOMAIN outbox : Len(outbox[i]) <= TELEGRAM_MAX

\* the text the last /more popped
Popped == prior[last.chat][1]

\* C9 (as claimed): a text longer than TRUNCATE_THRESHOLD is delivered as a
\* prefix plus marker and its suffix stored; the next /more delivers the stored
\* suffix and leaves no overflow for the chat.
C9_MoreClearsOverflow ==
    /\ (last.op = "send" /\ Len(answer) > TRUNCATE_THRESHOLD)
           => (has_overflow(overflow, last.chat)
               /\ TruncatedAt(last.chat, answer, outbox, overflow))
    /\ last.op = "more"
           => (/\ Delivered(outbox) = Squeeze(Popped)
               /\ ~has_overflow(overflow, last.chat))

\* C9 (amended): a text longer than TRUNCATE_THRESHOLD is delivered as a prefix
\* plus marker and its suffix stored; the next /more hands exactly the stored
\* suffix to send: a suffix of at most TRUNCATE_THRESHOLD characters is
\* delivered whole and no overflow is left, a longer one is truncated in turn
\* and the chat keeps an overflow. No other chat's overflow is touched.
C9_MoreDeliversSuffix ==
    /\ (last.op = "send" /\ Len(answer) > TRUNCATE_THRESHOLD)
           => (has_overflow(overflow, last.chat)
               /\ TruncatedAt(last.chat, answer, outbox, overflow))
    /\ last.op = "more"
           => IF Len(Popped) <= TRUNCATE_THRESHOLD
              THEN /\ Delivered(outbox) = Squeeze(Popped)
                   /\ ~has_overflow(overflow, last.chat)
              ELSE /\ has_overflow(overflow, last.chat)
                   /\ TruncatedAt(last.chat, Popped, outbox, overflow)
    /\ last.op \in {"send", "more"}
           => \A d \in Chats \ {last.chat} : overflow[d] = prior[d]

\* the long answer was sent to a chat, and /more then delivered its suffix
C9_Witness ==
    /\ last.op = "more"
    /\ sent_to = Some(last.chat)
    /\ Len(answer) > TRUNCATE_THRESHOLD
    /\ ~has_overflow(overflow, last.chat)
    /\ Popped = After(answer, _find_break(answer, TRUNCATE_THRESHOLD))
    /\ Delivered(outbox) = Squeeze(Popped)
    /\ Delivered(outbox) # <<>>

\* C10: a text of at most TELEGRAM_MAX characters goes out as one chunk equal
\* to the text, and the overflow map is left as it was: nothing is stored and
\* nothing stored is cleared.
C10_ShortTextOneChunk ==
    /\ (last.op = "send" /\ Len(answer) <= TELEGRAM_MAX)
           => (outbox = <<answer>> /\ overflow = prior)
    /\ (last.op = "more" /\ Len(Popped) <= TELEGRAM_MAX)
           => (outbox = <<Popped>> /\ overflow = PopOverflow(prior, last.chat))

\* a short answer was sent to a chat that still holds an earlier overflow
C10_Witness ==
    /\ last.op = "send"
    /\ answer # <<>>
    /\ Len(answer) <= TELEGRAM_MAX
    /\ outbox = <<answer>>
    /\ overflow[last.chat] = Some(Old)

IsSuffix(rest, text) ==
    Len(rest) <= Len(text) /\ rest = After(text, Len(text) - Len(rest))

\* C11: a chat holds at most one remainder: a text longer than
\* TRUNCATE_THRESHOLD sent for a chat replaces whatever remainder the chat held
\* by the remainder of that text, and the /more that follows delivers text of
\* the latest answer only, nothing of the discarded remainder.
C11_LatestOverflowOnly ==
    /\ (last.op = "send" /\ Len(answer) > TRUNCATE_THRESHOLD)
           => overflow[last.chat] =
                  Some(After(answer, _find_break(answer, TRUNCATE_THRESHOLD)))
    /\ (last.op = "more" /\ sent_to = Some(last.chat)
            /\ Len(answer) > TRUNCATE_THRESHOLD)
           => (/\ IsSuffix(Popped, answer)
               /\ \A i \in DOMAIN outbox : \A k \in DOMAIN Old :
                      ~Contains(outbox[i], Old[k]))

\* a long answer was sent to a chat that held an earlier remainder, and the
\* chat now holds the remainder of the answer instead
C11_Witness ==
    /\ last.op = "send"
    /\ Len(answer) > TRUNCATE_THRESHOLD
    /\ prior[last.chat] = Some(Old)
    /\ has_overflow(overflow, last.chat)
    /\ overflow[last.chat] # Some(Old)

\* the last handler split a text longer than TELEGRAM_MAX and not longer than
\* TRUNCATE_THRESHOLD: the answer itself, or the remainder /more popped
SplitText ==
    IF last.op = "send" THEN answer
    ELSE IF last.op = "more" THEN Popped
    ELSE <<>>

SplitCase ==
    /\ Len(SplitText) > TELEGRAM_MAX
    /\ Len(SplitText) <= TRUNCATE_THRESHOLD

\* text is the chunk bodies in order, with whitespace (and nothing else)
\* left out between one chunk and the next and after the last
RECURSIVE Rebuilds(_, _)
Rebuilds(chunks, text) ==
    IF chunks = <<>> THEN text = <<>>
    ELSE LET c == Body(Head(chunks)) IN
         /\ Len(c) <= Len(text)
         /\ Before(text, Len(c)) = c
         /\ Rebuilds(Tail(chunks), lstrip(After(text, Len(c))))

\* C13: for a text longer than TELEGRAM_MAX and at most TRUNCATE_THRESHOLD,
\* the chunks without their counters, in order, are the text except for
\* whitespace dropped at the breaks: every non-whitespace character appears
\* once, in the original order.
C13_ChunksRebuildText ==
    SplitCase => (/\ Rebuilds(outbox, SplitText)
                  /\ Delivered(outbox) = Squeeze(SplitText))

\* a text was split in two and whitespace was dropped at the break
C13_Witness ==
    /\ last.op = "send"
    /\ SplitCase
    /\ Len(outbox) = 2
    /\ Len(Joined(outbox)) < Len(answer)
    /\ Rebuilds(outbox, answer)

HasCounters(chunks) ==
    \A i \in DOMAIN chunks :
        /\ Len(chunks[i]) >= 6
        /\ Before(chunks[i], 6) = <<"[", ToString(i), "/", ToString(Len(chunks)), "]", " ">>

\* C14 (as claimed): a text longer than TELEGRAM_MAX and at most
\* TRUNCATE_THRESHOLD gives at least 2 chunks, and N > 1 chunks carry the
\* counters "[1/N] " to "[N/N] ".
C14_AtLeastTwoChunks ==
    SplitCase => (/\ Len(outbox) >= 2
                  /\ Len(outbox) > 1 => HasCounters(outbox))

\* C14 (amended): such a text gives one chunk, without counter, exactly when
\* everything after its first break is whitespace, and at least 2 chunks
\* otherwise; N > 1 chunks carry the counters "[1/N] " to "[N/N] ".
C14_CountersOnEveryChunk ==
    SplitCase =>
        LET cut == _find_break(SplitText, TELEGRAM_MAX) IN
        /\ Len(outbox) >= 1
        /\ Len(outbox) = 1 <=> Squeeze(After(SplitText, cut)) = <<>>
        /\ Len(outbox) = 1 => outbox[1] = Body(outbox[1])
        /\ Len(outbox) > 1 => HasCounters(outbox)

\* a text was split into chunks that carry their counters
C14_Witness ==
    /\ last.op = "send"
    /\ SplitCase
    /\ Len(outbox) = 2
    /\ HasCounters(outbox)
    /\ Body(outbox[2]) # <<>>

\* the text the last call handed to _split
SplitInput ==
    IF Len(SplitText) > TRUNCATE_THRESHOLD
    THEN rstrip(Before(SplitText, _find_break(SplitText, TRUNCATE_THRESHOLD))) \o MARKER
    ELSE SplitText

\* one iteration of the while loop of _split on `remaining` leaves less
LoopConsumes(remaining) ==
    Len(remaining) > TELEGRAM_MAX =>
        Len(Remaining(remaining, _find_break(remaining, TELEGRAM_MAX))) < Len(remaining)

\* the characters of the answer among those delivered: no whitespace, no marker
OfAnswer(chunks) ==
    SelectSeq(Delivered(chunks), LAMBDA ch : ch # MARKER[Len(MARKER)])

\* the chat of the answer holds no overflow
Drained == sent_to # None /\ ~has_overflow(overflow, sent_to[1])

\* C25: the split loop leaves less text after every iteration, from whatever
\* point of the text it starts, so every send ends; the overflow a /more
\* stores is strictly shorter than the one it popped, so only finitely many
\* /more calls find an overflow; and the chunks sent for an answer
\* for an answer longer than TRUNCATE_THRESHOLD by the send and the /more
\* calls so far, followed by the overflow still stored, hold every
\* non-whitespace character of the answer exactly once, in order - so once no
\* overflow is left the whole answer has been delivered.
C25_EveryCharacterOnce ==
    /\ \A k \in 0..Len(SplitInput) : LoopConsumes(After(SplitInput, k))
    /\ (last.op = "more" /\ has_overflow(overflow, last.chat))
           => Len(overflow[last.chat][1]) < Len(Popped)
    /\ (sent_to # None /\ Len(answer) > TRUNCATE_THRESHOLD)
           => OfAnswer(sent_log)
                  \o (IF Drained THEN <<>> ELSE Squeeze(overflow[sent_to[1]][1]))
              = Squeeze(answer)

\* C25 witness: an answer was truncated, two /more calls followed, the first
\* of which stored an overflow again, and now the chat holds none: the three
\* calls together delivered the answer.
C25_Witness ==
    /\ Drained
    /\ Len(answer) > TRUNCATE_THRESHOLD
    /\ last = [op |-> "more", chat |-> sent_to[1]]
    /\ Len(Popped) < Len(answer) - TRUNCATE_THRESHOLD
    /\ Len(sent_log) > Len(outbox) + 1
    /\ OfAnswer(sent_log) = Squeeze(answer)

----------------------------------------------------------------------------
(* Properties of _find_break, checked under SpecBreak *)

\* the places (counted from 0) where delimiter occurs wholly within the first
\* max_pos characters of text
Occurrences(text, delimiter, max_pos) ==
    {pos \in 0..max_pos :
        /\ pos + Len(delimiter) <= max_pos
        /\ pos + Len(delimiter) <= Len(text)
        /\ \A j \in 1..Len(delimiter) : text[pos + j] = delimiter[j]}

\* delimiter has such an occurrence starting after max_pos / 2
Qualifies(text, delimiter, max_pos) ==
    \E pos \in Occurrences(text, delimiter, max_pos) : 2 * pos > max_pos

\* C12: _find_break returns p with max_pos/2 < p <= max_pos; when no delimiter
\* has an occurrence wholly within the first max_pos characters that starts
\* after max_pos/2 it returns max_pos, and otherwise the end of the last such
\* occurrence of the first delimiter, in the order blank line, newline,
\* period-space, space, that has one.
C12_FindBreakPosition ==
    brk_cut # None =>
        LET p == brk_cut[1]
            qualifying == {k \in DOMAIN Delimiters :
                             Qualifies(brk_text, Delimiters[k], brk_max)}
        IN  /\ 2 * p > brk_max
            /\ p <= brk_max
            /\ IF qualifying = {} THEN p = brk_max
               ELSE LET k == CHOOSE k \in qualifying : \A q \in qualifying : k <= q
                        occ == Occurrences(brk_text, Delimiters[k], brk_max)
                    IN  /\ p - Len(Delimiters[k]) \in occ
                        /\ \A pos \in occ : pos <= p - Len(Delimiters[k])

\* a break taken after a newline although a space comes later, within max_pos
C12_Witness ==
    /\ brk_cut # None
    /\ brk_cut[1] < brk_max
    /\ brk_text[brk_cut[1]] = "\n"
    /\ \E pos \in Occurrences(brk_text, <<" ">>, brk_max) : pos >= brk_cut[1]

============================================================================
